---------------------------- MODULE Spec2Model ----------------------------
(***************************************************************************)
(* Groundwork: the session manager (auth/services.py), the token codec    *)
(* and credential hasher (auth/utils.py), the local provider              *)
(* (auth/providers/local.py) and the per-project issue sequence           *)
(* (issues/services.py), over a PostgreSQL store at READ COMMITTED (the   *)
(* engine in core/database.py sets no isolation level).                   *)
(*                                                                         *)
(* Every request handler owns one session, hence one transaction          *)
(* (core/database.py get_db): its statements read the committed rows plus *)
(* its own writes, an UPDATE takes the row's lock until commit, and a     *)
(* second writer of the same row waits for that commit and then applies   *)
(* its UPDATE ... WHERE id = ... to the newest row version.               *)
(*                                                                         *)
(* The clock counts whole seconds, the resolution of the iat and exp      *)
(* claims of a token (jose encodes datetimes as integer timestamps).      *)
(***************************************************************************)
EXTENDS Integers, Sequences, FiniteSets, TLC

\* ------------------------------------------------------------- bounds
MaxTime == 1
MaxRefreshRows == 2
MaxResetRows == 1
MaxIssues == 4
MaxInstant == 5
MaxOutstanding == 2
TicksPerSecond == 2

\* ---------------------------------------------------------- constants
\* Token lifetimes, each scaled to one tick of the model's clock.
\* settings.refresh_token_expire_days is read by login and by
\* create_refresh_token; core/config.py declares no such field, so that it
\* is a configured lifetime at all is taken from the design document
\* ("refresh TTL of about 7 days, configurable").
AccessTokenExpire == 1
RefreshTokenExpire == 1
ResetTokenExpire == 1

NULL == 0 - 1

Users == {"u1", "u2"}
NoUser == "none"
UnknownEmail == "nobody@example.com"
Emails == Users \cup {UnknownEmail}
Passwords == {"pw1", "pw2"}
Procs == {"p1", "p2"}
SoloProcs == {"p1"}
IssueProcs == {"p1", "p2", "p3"}
Selectors == {"s1", "s2"}
Validators == {"v1", "v2"}
Projects == {"TEST", "DEMO"}

SecretKey == "secret_key"
ForgedKey == "forged"

\* Roles: the seeded system role and a role made with create_role; the
\* permissions of the catalogue, and a codename that is not in it.
RoleIds == {"r1", "r2"}
RoleNames == {"Admin", "Custom", "Renamed"}
Permissions == {"users:create", "roles:manage"}
UnknownCodename == "reports:export"
Codenames == Permissions \cup {UnknownCodename}
NoName == ""

\* Instants of the fine clock, TicksPerSecond to the second.
Instants == 0..MaxInstant

\* The setup wizard: its request handlers, the values a form can carry, the
\* ids uuid4 can draw for an InstanceConfig row, and request paths, each a
\* string cut into pieces so that a prefix of the string is a prefix of the
\* sequence.
SetupProcs == {"p1", "p2"}
WizardProcs == {"p1"}
InstanceNames == {"Groundwork", "Acme"}
BaseUrls == {"https://gw.example.com"}
ConfigIds == {"c1", "c2"}
AdminEmails == {"root@example.com", "ops@example.com"}
MinPasswordLength == 8
PasswordLengths == {MinPasswordLength - 1, MinPasswordLength}
Paths ==
    {<<"/">>, <<"/", "login">>, <<"/", "api", "/v1", "/users">>,
     <<"/", "setup">>, <<"/", "setup", "/admin">>, <<"/", "setup", "-old">>,
     <<"/", "health">>, <<"/", "api", "/v1", "/health">>,
     <<"/", "api", "/v1", "/setup", "/complete">>, <<"/", "static", "/app.css">>}

VARIABLES
    now,                    \* datetime.now(UTC), in seconds
    users,                  \* table users: id -> row
    refresh_tokens,         \* table refresh_tokens: committed rows, in insertion order
    password_reset_tokens,  \* table password_reset_tokens: committed rows
    tx,                     \* per request handler: the position in its handler and its session
    preReset,               \* history: refresh secrets of rows committed before a committed reset of their user
    issues,                 \* table issues: committed rows
    itx,                    \* per request handler: position in create_issue and its session
    roles,                  \* table roles with role_permissions: id -> row
    checked,                \* the last answer of a require_permission checker
    codec,                  \* a claim set, its encoding, and the last decoding of it
    instance_config,        \* table instance_config: committed rows
    admin_users,            \* the users of the Admin role, by e-mail
    setup_completed_cache,  \* SetupCheckMiddleware._setup_completed of the one worker
    stx,                    \* per request handler: position in save_instance_settings
    answer,                 \* the last response of a setup endpoint or of the middleware
    parent_id               \* column issues.parent_id: issue -> parent, NULL for none

authVars == <<now, users, refresh_tokens, password_reset_tokens, tx, preReset>>
issueVars == <<issues, itx>>
roleVars == <<roles, checked>>
codecVars == <<codec>>
setupVars == <<instance_config, admin_users, setup_completed_cache, stx, answer>>
treeVars == <<parent_id>>
vars == <<now, users, refresh_tokens, password_reset_tokens, tx, preReset, issues, itx,
          roles, checked, codec, instance_config, admin_users, setup_completed_cache,
          stx, answer, parent_id>>

\* ------------------------------------------------- credential hasher
\* pwd_context.hash: the digest embeds the secret under a salt; the salt
\* never decides a verification, so it is left out of the digest's model.
hash_password(password) == <<"$argon2", password>>

verify_password(plain_password, hashed_password) ==
    /\ hashed_password[1] = "$argon2"
    /\ hashed_password[2] = plain_password

\* ------------------------------------------------------- token codec
\* jwt.encode(payload, key): the claims and an HS256 signature under key;
\* the same claims under the same key give the same token.
jwt_encode(payload, key) ==
    [sub |-> payload.sub, exp |-> payload.exp, iat |-> payload.iat,
     type |-> payload.type, sig |-> key]

\* The access token minted with the refresh token's type tag.
create_access_token_as_refresh(user_id, t) ==
    jwt_encode([sub |-> user_id, exp |-> t + AccessTokenExpire, iat |-> t,
                type |-> "refresh"], SecretKey)

create_access_token(user_id, t) ==
    jwt_encode([sub |-> user_id, exp |-> t + AccessTokenExpire, iat |-> t,
                type |-> "access"], SecretKey)

create_refresh_token(user_id, t) ==
    jwt_encode([sub |-> user_id, exp |-> t + RefreshTokenExpire, iat |-> t,
                type |-> "refresh"], SecretKey)

NoToken == [sub |-> "", exp |-> NULL, iat |-> NULL, type |-> "", sig |-> ""]
NoPayload == [sub |-> "", exp |-> NULL, iat |-> NULL, type |-> ""]

\* jwt.decode: signature first, then exp (valid while exp >= now); any
\* JWTError gives None.
decode_token(token, t) ==
    IF token.sig = SecretKey /\ token.exp >= t
    THEN [sub |-> token.sub, exp |-> token.exp, iat |-> token.iat, type |-> token.type]
    ELSE NoPayload

\* What a client can present as a token: anything the server has signed
\* or could sign up to now, and the same claims under a foreign key.
Tokens(t) ==
    {jwt_encode([sub |-> u, exp |-> i + ttl[2], iat |-> i, type |-> ttl[1]], k) :
        u \in Users, i \in 0..t,
        ttl \in {<<"access", AccessTokenExpire>>, <<"refresh", RefreshTokenExpire>>},
        k \in {SecretKey, ForgedKey}}

RefreshSecrets == {create_refresh_token(u, i) : u \in Users, i \in 0..MaxTime}

\* ------------------------------------------------------------- rows
NoRefreshRow == [user_id |-> NoUser, token_hash |-> <<"", "">>, expires_at |-> NULL,
                 revoked_at |-> NULL]
NoResetRow == [user_id |-> NoUser, token_selector |-> "", token_hash |-> <<"", "">>,
               expires_at |-> NULL, used_at |-> NULL]

Idle ==
    [pc |-> "idle", op |-> "none", email |-> "", password |-> "", user |-> NoUser,
     token |-> NoToken, access_token |-> NoToken, reset_token |-> <<>>,
     rid |-> 0, rids |-> {}, t |-> NULL, t2 |-> NULL, rt_ins |-> NoRefreshRow,
     prt_ins |-> NoResetRow, result |-> FALSE, raised |-> FALSE,
     exc |-> "", status |-> 0, detail |-> "", work |-> <<>>]

\* A service call that returned its failure value: nothing is pending.
Failed(op) == [Idle EXCEPT !.pc = "done", !.op = op]

\* select(User).where(User.email == email): the e-mail of user u is u.
UserByEmail(email) == IF email \in Users THEN email ELSE NoUser

\* Row locks held by the open transaction of q (taken by its flushed UPDATEs).
LockedUsers(q) ==
    IF tx[q].pc \in {"login_commit", "confirm_revoke", "confirm_commit"}
    THEN {tx[q].user} ELSE {}

LockedRefresh(q) ==
    IF tx[q].pc = "logout_commit" THEN {tx[q].rid}
    ELSE IF tx[q].pc = "confirm_commit" THEN tx[q].rids
    ELSE {}

LockedReset(q) ==
    IF tx[q].pc \in {"confirm_revoke", "confirm_commit"} THEN {tx[q].rid} ELSE {}

UserRowFree(p, u) == \A q \in Procs \ {p} : u \notin LockedUsers(q)
RefreshRowsFree(p, S) == \A q \in Procs \ {p} : S \cap LockedRefresh(q) = {}
ResetRowFree(p, r) == \A q \in Procs \ {p} : r \notin LockedReset(q)

\* Rows of refresh_tokens the open logins have flushed but not committed.
PendingRefreshRows == Cardinality({q \in Procs : tx[q].pc \in {"login_flush", "login_commit"}})

Init ==
    /\ now = 0
    /\ users = [u \in Users |->
                 [hashed_password |-> hash_password("pw1"), is_active |-> TRUE,
                  last_login_at |-> NULL]]
    /\ refresh_tokens = <<>>
    /\ password_reset_tokens = <<>>
    /\ tx = [p \in Procs |-> Idle]
    /\ preReset = {}
    /\ issues = <<>>
    /\ itx = [p \in IssueProcs |-> [pc |-> "idle", project |-> "", max_number |-> 0,
                                     raised |-> FALSE]]
    /\ roles = [r \in RoleIds |->
                 IF r = "r1"
                 THEN [name |-> "Admin", is_system |-> TRUE, permissions |-> Permissions]
                 ELSE [name |-> "Custom", is_system |-> FALSE, permissions |-> {}]]
    /\ checked = [user |-> NoUser, permission |-> "", exc |-> "", status |-> 0]
    /\ codec = [claims |-> NoPayload, key |-> "", token |-> NoToken, at |-> NULL,
                payload |-> NoPayload, decoded |-> FALSE]
    /\ instance_config = <<>>
    /\ admin_users = {}
    /\ setup_completed_cache = "None"
    /\ stx = [p \in SetupProcs |-> [pc |-> "idle", via |-> "", instance_name |-> "",
                                     base_url |-> "", id |-> "", row |-> 0]]
    /\ answer = [op |-> "", via |-> "", status |-> 0, location |-> ""]
    /\ parent_id = [i \in 1..MaxIssues |-> NULL]

\* The clock advances.
Tick ==
    /\ now < MaxTime
    /\ now' = now + 1
    /\ UNCHANGED <<users, refresh_tokens, password_reset_tokens, tx, preReset>>
    /\ UNCHANGED <<issueVars, roleVars, codecVars, setupVars, treeVars>>

\* A handler whose service call has returned without pending writes (or has
\* raised): get_db commits the empty transaction (or rolls back).
Return(p) ==
    /\ tx[p].pc = "done"
    /\ tx' = [tx EXCEPT ![p] = Idle]
    /\ UNCHANGED <<now, users, refresh_tokens, password_reset_tokens, preReset>>
    /\ UNCHANGED <<issueVars, roleVars, codecVars, setupVars, treeVars>>

\* ------------------------------------------------------------ login
\* authenticate without the is_active test.
authenticate_ignores_active(email, password) ==
    LET user == UserByEmail(email) IN
    IF user = NoUser THEN NoUser
    ELSE IF ~verify_password(password, users[user].hashed_password) THEN NoUser
    ELSE user

\* LocalAuthProvider.authenticate, called first by AuthService.login.
authenticate(email, password) ==
    LET user == UserByEmail(email) IN
    IF user = NoUser THEN NoUser
    ELSE IF ~users[user].is_active THEN NoUser
    ELSE IF ~verify_password(password, users[user].hashed_password) THEN NoUser
    ELSE user

\* LocalAuthProvider.authenticate, lines 25-34: the calls it makes to the
\* password hasher, in order. For an unknown e-mail line 27 first computes
\* hash_password("dummy") and then verifies the password against it.
authenticate_work(email, password) ==
    LET user == UserByEmail(email) IN
    IF user = NoUser THEN <<"hash_password", "verify_password">>
    ELSE IF ~users[user].is_active THEN <<>>
    ELSE <<"verify_password">>

\* login, lines 33-52: authenticate, then stamp last_login_at, mint both
\* tokens and add the RefreshToken row to the session.
login_authenticate(p, email, password) ==
    /\ tx[p].pc = "idle"
    /\ Len(refresh_tokens) + PendingRefreshRows < MaxRefreshRows
    /\ LET user == authenticate(email, password)
           refresh_token == create_refresh_token(user, now)
       IN
       tx' = [tx EXCEPT ![p] =
                IF user = NoUser
                THEN [Failed("login") EXCEPT !.email = email, !.password = password,
                                             !.work = authenticate_work(email, password)]
                ELSE [Idle EXCEPT !.pc = "login_flush", !.op = "login",
                         !.email = email, !.password = password, !.user = user,
                         !.t = now, !.work = authenticate_work(email, password),
                         !.access_token = create_access_token(user, now),
                         !.token = refresh_token,
                         !.rt_ins = [user_id |-> user,
                                     token_hash |-> hash_password(refresh_token),
                                     expires_at |-> now + RefreshTokenExpire,
                                     revoked_at |-> NULL]]]
    /\ UNCHANGED <<now, users, refresh_tokens, password_reset_tokens, preReset>>
    /\ UNCHANGED <<issueVars, roleVars, codecVars, setupVars, treeVars>>

\* login, line 53: flush sends UPDATE users SET last_login_at, which takes
\* the user's row lock, then INSERT refresh_tokens; login returns the tokens.
login_flush(p) ==
    /\ tx[p].pc = "login_flush"
    /\ UserRowFree(p, tx[p].user)
    /\ tx' = [tx EXCEPT ![p].pc = "login_commit", ![p].result = TRUE]
    /\ UNCHANGED <<now, users, refresh_tokens, password_reset_tokens, preReset>>
    /\ UNCHANGED <<issueVars, roleVars, codecVars, setupVars, treeVars>>

\* The login route returns the tokens and get_db commits.
login_commit(p) ==
    /\ tx[p].pc = "login_commit"
    /\ users' = [users EXCEPT ![tx[p].user].last_login_at = tx[p].t]
    /\ refresh_tokens' = Append(refresh_tokens, tx[p].rt_ins)
    /\ tx' = [tx EXCEPT ![p] = Idle]
    /\ UNCHANGED <<now, password_reset_tokens, preReset>>
    /\ UNCHANGED <<issueVars, roleVars, codecVars, setupVars, treeVars>>

\* ----------------------------------------------------------- logout
\* logout, lines 67-88: the rows the scan of the subject's non-revoked
\* tokens verifies the presented secret against.
logout_candidates(refresh_token, t) ==
    LET payload == decode_token(refresh_token, t) IN
    IF payload = NoPayload \/ payload.type # "refresh" THEN {}
    ELSE IF payload.sub = "" THEN {}
    ELSE {i \in 1..Len(refresh_tokens) :
            /\ refresh_tokens[i].user_id = payload.sub
            /\ refresh_tokens[i].revoked_at = NULL
            /\ verify_password(refresh_token, refresh_tokens[i].token_hash)}

\* The scan breaks at the first row that verifies; the SELECT has no
\* ORDER BY, so any matching row can be the first.
logout_select(p, refresh_token) ==
    /\ tx[p].pc = "idle"
    /\ LET found == logout_candidates(refresh_token, now) IN
       IF found = {}
       THEN tx' = [tx EXCEPT ![p] = Failed("logout")]
       ELSE \E i \in found :
               tx' = [tx EXCEPT ![p] =
                        [Idle EXCEPT !.pc = "logout_flush", !.op = "logout",
                                     !.token = refresh_token, !.rid = i, !.t = now]]
    /\ UNCHANGED <<now, users, refresh_tokens, password_reset_tokens, preReset>>
    /\ UNCHANGED <<issueVars, roleVars, codecVars, setupVars, treeVars>>

\* logout, line 95: flush sends UPDATE refresh_tokens SET revoked_at WHERE id.
logout_flush(p) ==
    /\ tx[p].pc = "logout_flush"
    /\ RefreshRowsFree(p, {tx[p].rid})
    /\ tx' = [tx EXCEPT ![p].pc = "logout_commit", ![p].result = TRUE]
    /\ UNCHANGED <<now, users, refresh_tokens, password_reset_tokens, preReset>>
    /\ UNCHANGED <<issueVars, roleVars, codecVars, setupVars, treeVars>>

\* logout revoking every row of the row's user.
logout_commit_all(p) ==
    /\ tx[p].pc = "logout_commit"
    /\ refresh_tokens' =
          [i \in 1..Len(refresh_tokens) |->
             IF refresh_tokens[i].user_id = refresh_tokens[tx[p].rid].user_id
             THEN [refresh_tokens[i] EXCEPT !.revoked_at = tx[p].t]
             ELSE refresh_tokens[i]]
    /\ tx' = [tx EXCEPT ![p] = Idle]
    /\ UNCHANGED <<now, users, password_reset_tokens, preReset>>
    /\ UNCHANGED <<issueVars, roleVars, codecVars, setupVars, treeVars>>

\* The logout route returns and get_db commits.
logout_commit(p) ==
    /\ tx[p].pc = "logout_commit"
    /\ refresh_tokens' = [refresh_tokens EXCEPT ![tx[p].rid].revoked_at = tx[p].t]
    /\ tx' = [tx EXCEPT ![p] = Idle]
    /\ UNCHANGED <<now, users, password_reset_tokens, preReset>>
    /\ UNCHANGED <<issueVars, roleVars, codecVars, setupVars, treeVars>>

\* ---------------------------------------------------------- refresh
\* The scan of refresh_access_token without the expires_at filter.
refresh_candidates_ignores_expiry(refresh_token, t) ==
    LET payload == decode_token(refresh_token, t) IN
    IF payload = NoPayload \/ payload.type # "refresh" THEN {}
    ELSE IF payload.sub = "" THEN {}
    ELSE {i \in 1..Len(refresh_tokens) :
            /\ refresh_tokens[i].user_id = payload.sub
            /\ refresh_tokens[i].revoked_at = NULL
            /\ verify_password(refresh_token, refresh_tokens[i].token_hash)}

\* refresh_access_token, lines 100-121: the rows of the subject that are
\* not revoked and not expired and verify the presented secret.
refresh_candidates(refresh_token, t) ==
    LET payload == decode_token(refresh_token, t) IN
    IF payload = NoPayload \/ payload.type # "refresh" THEN {}
    ELSE IF payload.sub = "" THEN {}
    ELSE {i \in 1..Len(refresh_tokens) :
            /\ refresh_tokens[i].user_id = payload.sub
            /\ refresh_tokens[i].revoked_at = NULL
            /\ refresh_tokens[i].expires_at > t
            /\ verify_password(refresh_token, refresh_tokens[i].token_hash)}

\* The user lookup without the is_active test.
user_exists(user_id) == user_id \in Users

\* refresh_access_token, lines 127-133: the user exists and is active.
user_is_active(user_id) == user_id \in Users /\ users[user_id].is_active

refresh_select_tokens(p, refresh_token) ==
    /\ tx[p].pc = "idle"
    /\ tx' = [tx EXCEPT ![p] =
                IF refresh_candidates(refresh_token, now) = {}
                THEN Failed("refresh")
                ELSE [Idle EXCEPT !.pc = "refresh_user", !.op = "refresh",
                                  !.token = refresh_token, !.user = refresh_token.sub]]
    /\ UNCHANGED <<now, users, refresh_tokens, password_reset_tokens, preReset>>
    /\ UNCHANGED <<issueVars, roleVars, codecVars, setupVars, treeVars>>

\* refresh_access_token with rotation: the matched rows are revoked.
refresh_select_user_rotating(p) ==
    /\ tx[p].pc = "refresh_user"
    /\ tx' = [tx EXCEPT ![p] =
                IF user_is_active(tx[p].user)
                THEN [tx[p] EXCEPT !.pc = "done", !.result = TRUE,
                         !.access_token = create_access_token(tx[p].user, now)]
                ELSE Failed("refresh")]
    /\ refresh_tokens' =
          [i \in 1..Len(refresh_tokens) |->
             IF i \in refresh_candidates(tx[p].token, now)
             THEN [refresh_tokens[i] EXCEPT !.revoked_at = now]
             ELSE refresh_tokens[i]]
    /\ UNCHANGED <<now, users, password_reset_tokens, preReset>>
    /\ UNCHANGED <<issueVars, roleVars, codecVars, setupVars, treeVars>>

\* refresh_access_token, lines 127-143: load the user, mint the access token.
refresh_select_user(p) ==
    /\ tx[p].pc = "refresh_user"
    /\ tx' = [tx EXCEPT ![p] =
                IF user_is_active(tx[p].user)
                THEN [tx[p] EXCEPT !.pc = "done", !.result = TRUE,
                         !.access_token = create_access_token(tx[p].user, now)]
                ELSE Failed("refresh")]
    /\ UNCHANGED <<now, users, refresh_tokens, password_reset_tokens, preReset>>
    /\ UNCHANGED <<issueVars, roleVars, codecVars, setupVars, treeVars>>

\* What refresh_access_token returns when it runs alone in the current state.
refresh_succeeds(refresh_token) ==
    /\ refresh_candidates(refresh_token, now) # {}
    /\ user_is_active(refresh_token.sub)

\* --------------------------------------------------- password reset
\* Rows of password_reset_tokens flushed by open transactions.
PendingResetRows == Cardinality({q \in Procs : tx[q].pc \in {"request_flush", "request_commit"}})

\* request_password_reset, lines 153-169: the user lookup, then a random
\* selector and validator and the row added to the session.
request_lookup(p, email, selector, validator) ==
    /\ tx[p].pc = "idle"
    /\ LET user == UserByEmail(email) IN
       tx' = [tx EXCEPT ![p] =
                IF user = NoUser \/ ~users[user].is_active
                THEN Failed("request")
                ELSE [Idle EXCEPT !.pc = "request_flush", !.op = "request", !.user = user,
                         !.prt_ins = [user_id |-> user,
                                      token_selector |-> selector,
                                      token_hash |-> hash_password(validator),
                                      expires_at |-> now + ResetTokenExpire,
                                      used_at |-> NULL],
                         !.reset_token = <<selector, ".", validator>>]]
    /\ UNCHANGED <<now, users, refresh_tokens, password_reset_tokens, preReset>>
    /\ UNCHANGED <<issueVars, roleVars, codecVars, setupVars, treeVars>>

\* A request for a reset while the table has room for its row.
request_select(p, email, selector, validator) ==
    /\ Len(password_reset_tokens) + PendingResetRows < MaxResetRows
    /\ request_lookup(p, email, selector, validator)

\* A request for a reset while the table has room for several outstanding
\* rows.
request_select_outstanding(p, email, selector, validator) ==
    /\ Len(password_reset_tokens) + PendingResetRows < MaxOutstanding
    /\ request_lookup(p, email, selector, validator)

\* secrets.token_urlsafe draws an opaque value: one that a row already
\* holds, or a new one, of which the first unused stands for all.
Draw(values, held) ==
    (values \cap held) \cup
        (IF values \subseteq held THEN {}
         ELSE {CHOOSE v \in values \ held : TRUE})

HeldSelectors ==
    {password_reset_tokens[i].token_selector : i \in 1..Len(password_reset_tokens)}
        \cup {tx[q].prt_ins.token_selector :
                q \in {r \in Procs : tx[r].pc \in {"request_flush", "request_commit"}}}

HeldValidators ==
    {password_reset_tokens[i].token_hash[2] : i \in 1..Len(password_reset_tokens)}
        \cup {tx[q].prt_ins.token_hash[2] :
                q \in {r \in Procs : tx[r].pc \in {"request_flush", "request_commit"}}}

\* request_password_reset, lines 170-174: the flush sends the INSERT.
\* token_selector is unique: the INSERT waits for an open transaction that
\* inserted the same selector and raises IntegrityError against a committed
\* one.
request_flush(p) ==
    /\ tx[p].pc = "request_flush"
    /\ \A q \in Procs \ {p} :
          ~(tx[q].pc = "request_commit"
              /\ tx[q].prt_ins.token_selector = tx[p].prt_ins.token_selector)
    /\ tx' = [tx EXCEPT ![p] =
                IF \E i \in 1..Len(password_reset_tokens) :
                      password_reset_tokens[i].token_selector = tx[p].prt_ins.token_selector
                THEN [Idle EXCEPT !.pc = "done", !.op = "request", !.raised = TRUE]
                ELSE [tx[p] EXCEPT !.pc = "request_commit", !.result = TRUE]]
    /\ UNCHANGED <<now, users, refresh_tokens, password_reset_tokens, preReset>>
    /\ UNCHANGED <<issueVars, roleVars, codecVars, setupVars, treeVars>>

request_commit(p) ==
    /\ tx[p].pc = "request_commit"
    /\ password_reset_tokens' = Append(password_reset_tokens, tx[p].prt_ins)
    /\ tx' = [tx EXCEPT ![p] = Idle]
    /\ UNCHANGED <<now, users, refresh_tokens, preReset>>
    /\ UNCHANGED <<issueVars, roleVars, codecVars, setupVars, treeVars>>

\* token.split(".", 1): the parts before and after the first separator.
FirstDot(token) ==
    IF \E i \in 1..Len(token) : token[i] = "."
    THEN CHOOSE i \in 1..Len(token) :
            token[i] = "." /\ \A j \in 1..(i - 1) : token[j] # "."
    ELSE 0

\* Pieces of a token are joined back into one string per part.
split_token(token) ==
    <<SubSeq(token, 1, FirstDot(token) - 1), SubSeq(token, FirstDot(token) + 1, Len(token))>>

\* The lookup without the used_at filter.
confirm_lookup_ignores_used(token, t) ==
    IF FirstDot(token) = 0 THEN 0
    ELSE LET parts == split_token(token)
             found == {i \in 1..Len(password_reset_tokens) :
                         /\ <<password_reset_tokens[i].token_selector>> = parts[1]
                         /\ password_reset_tokens[i].expires_at > t}
         IN IF found = {} THEN 0
            ELSE LET i == CHOOSE i \in found : TRUE IN
                 IF Len(parts[2]) = 1 /\
                    verify_password(parts[2][1], password_reset_tokens[i].token_hash)
                 THEN i ELSE 0

\* confirm_password_reset, lines 184-207: the row the selector finds among
\* the unused, unexpired rows and whose hash the validator verifies; 0 if
\* there is none.
confirm_lookup(token, t) ==
    IF FirstDot(token) = 0 THEN 0
    ELSE LET parts == split_token(token)
             found == {i \in 1..Len(password_reset_tokens) :
                         /\ <<password_reset_tokens[i].token_selector>> = parts[1]
                         /\ password_reset_tokens[i].used_at = NULL
                         /\ password_reset_tokens[i].expires_at > t}
         IN IF found = {} THEN 0
            ELSE LET i == CHOOSE i \in found : TRUE IN
                 IF Len(parts[2]) = 1 /\
                    verify_password(parts[2][1], password_reset_tokens[i].token_hash)
                 THEN i ELSE 0

\* confirm_password_reset marking the row its selector names as used
\* when it returns failure.
confirm_select_burning(p, token, new_password) ==
    /\ tx[p].pc = "idle"
    /\ LET i == confirm_lookup(token, now)
           named == {j \in 1..Len(password_reset_tokens) :
                       /\ FirstDot(token) # 0
                       /\ <<password_reset_tokens[j].token_selector>> = split_token(token)[1]
                       /\ password_reset_tokens[j].used_at = NULL}
       IN
       /\ tx' = [tx EXCEPT ![p] =
                   IF i = 0
                   THEN [Failed("confirm") EXCEPT !.reset_token = token]
                   ELSE [Idle EXCEPT !.pc = "confirm_flush", !.op = "confirm",
                            !.reset_token = token, !.rid = i,
                            !.user = password_reset_tokens[i].user_id,
                            !.password = new_password, !.t = now]]
       /\ password_reset_tokens' =
             [j \in 1..Len(password_reset_tokens) |->
                IF i = 0 /\ j \in named
                THEN [password_reset_tokens[j] EXCEPT !.used_at = now]
                ELSE password_reset_tokens[j]]
    /\ UNCHANGED <<now, users, refresh_tokens, preReset>>
    /\ UNCHANGED <<issueVars, roleVars, codecVars, setupVars, treeVars>>

\* confirm_password_reset, lines 184-222: parse, look the row up, verify,
\* load the user, set the new hash and used_at on the session's objects.
confirm_select(p, token, new_password) ==
    /\ tx[p].pc = "idle"
    /\ LET i == confirm_lookup(token, now) IN
       tx' = [tx EXCEPT ![p] =
                IF i = 0
                THEN [Failed("confirm") EXCEPT !.reset_token = token]
                ELSE [Idle EXCEPT !.pc = "confirm_flush", !.op = "confirm",
                         !.reset_token = token, !.rid = i,
                         !.user = password_reset_tokens[i].user_id,
                         !.password = new_password, !.t = now]]
    /\ UNCHANGED <<now, users, refresh_tokens, password_reset_tokens, preReset>>
    /\ UNCHANGED <<issueVars, roleVars, codecVars, setupVars, treeVars>>

\* confirm_password_reset, lines 225-229: the SELECT autoflushes UPDATE
\* users and UPDATE password_reset_tokens, then reads the user's
\* non-revoked refresh tokens and sets revoked_at on each.
confirm_flush(p) ==
    /\ tx[p].pc = "confirm_flush"
    /\ UserRowFree(p, tx[p].user)
    /\ ResetRowFree(p, tx[p].rid)
    /\ tx' = [tx EXCEPT ![p].pc = "confirm_revoke",
                        ![p].t2 = now,
                        ![p].rids = {i \in 1..Len(refresh_tokens) :
                                       /\ refresh_tokens[i].user_id = tx[p].user
                                       /\ refresh_tokens[i].revoked_at = NULL}]
    /\ UNCHANGED <<now, users, refresh_tokens, password_reset_tokens, preReset>>
    /\ UNCHANGED <<issueVars, roleVars, codecVars, setupVars, treeVars>>

\* confirm_password_reset, lines 233-234: the flush sends UPDATE
\* refresh_tokens SET revoked_at for each row read.
confirm_revoke(p) ==
    /\ tx[p].pc = "confirm_revoke"
    /\ RefreshRowsFree(p, tx[p].rids)
    /\ tx' = [tx EXCEPT ![p].pc = "confirm_commit", ![p].result = TRUE]
    /\ UNCHANGED <<now, users, refresh_tokens, password_reset_tokens, preReset>>
    /\ UNCHANGED <<issueVars, roleVars, codecVars, setupVars, treeVars>>

\* The commit of a confirmation that marks every reset row of the user
\* as used.
confirm_commit_all_tokens(p) ==
    /\ tx[p].pc = "confirm_commit"
    /\ users' = [users EXCEPT ![tx[p].user].hashed_password = hash_password(tx[p].password)]
    /\ password_reset_tokens' =
          [i \in 1..Len(password_reset_tokens) |->
             IF password_reset_tokens[i].user_id = tx[p].user
             THEN [password_reset_tokens[i] EXCEPT !.used_at = tx[p].t]
             ELSE password_reset_tokens[i]]
    /\ refresh_tokens' =
          [i \in 1..Len(refresh_tokens) |->
             IF i \in tx[p].rids
             THEN [refresh_tokens[i] EXCEPT !.revoked_at = tx[p].t2]
             ELSE refresh_tokens[i]]
    /\ preReset' = preReset
    /\ tx' = [tx EXCEPT ![p] = Idle]
    /\ UNCHANGED now
    /\ UNCHANGED <<issueVars, roleVars, codecVars, setupVars, treeVars>>

confirm_commit(p) ==
    /\ tx[p].pc = "confirm_commit"
    /\ users' = [users EXCEPT ![tx[p].user].hashed_password = hash_password(tx[p].password)]
    /\ password_reset_tokens' =
          [password_reset_tokens EXCEPT ![tx[p].rid].used_at = tx[p].t]
    /\ refresh_tokens' =
          [i \in 1..Len(refresh_tokens) |->
             IF i \in tx[p].rids
             THEN [refresh_tokens[i] EXCEPT !.revoked_at = tx[p].t2]
             ELSE refresh_tokens[i]]
    /\ preReset' = preReset
          \cup {refresh_tokens[i].token_hash[2] :
                  i \in {j \in 1..Len(refresh_tokens) :
                           /\ refresh_tokens[j].user_id = tx[p].user
                           /\ refresh_tokens[j].revoked_at = NULL}}
          \cup {tx[q].token :
                  q \in {r \in Procs : tx[r].pc = "login_flush" /\ tx[r].user = tx[p].user}}
    /\ tx' = [tx EXCEPT ![p] = Idle]
    /\ UNCHANGED now
    /\ UNCHANGED <<issueVars, roleVars, codecVars, setupVars, treeVars>>

\* What a client can present as a reset token.
ResetTokens ==
    {<<s, ".", v>> : s \in Selectors, v \in Validators}
        \cup {<<"s1">>, <<"s1", ".", "v1", ".", "v1">>}

\* ------------------------------------------------- get_current_user
\* User ids are UUIDs; UnknownUser is a UUID no row has, and "not-a-uuid"
\* a subject that UUID() does not parse.
UnknownUser == "u9"
ValidUUIDs == Users \cup {UnknownUser}
Subjects == Users \cup {"", "not-a-uuid", UnknownUser}

\* The cookie jars a request can carry: no access_token cookie, or one
\* holding any claim set under the server's key or a foreign key.
Cookies(t) ==
    {<<>>} \cup
    {<<jwt_encode([sub |-> u, exp |-> i + ttl[2], iat |-> i, type |-> ttl[1]], k)>> :
        u \in Subjects, i \in 0..t,
        ttl \in {<<"access", AccessTokenExpire>>, <<"refresh", RefreshTokenExpire>>},
        k \in {SecretKey, ForgedKey}}

\* raise HTTPException(status_code=401, detail=...).
Unauthorized(detail) ==
    [exc |-> "HTTPException", status |-> 401, detail |-> detail, user |-> NoUser]

\* get_current_user with the type test of line 31 left out.
current_user_any_type(cookies, t) ==
    IF cookies = <<>> THEN Unauthorized("Not authenticated")
    ELSE LET payload == decode_token(cookies[1], t) IN
         IF payload = NoPayload
         THEN Unauthorized("Invalid token")
         ELSE IF payload.sub = "" THEN Unauthorized("Invalid token payload")
         ELSE IF payload.sub \notin ValidUUIDs
         THEN [exc |-> "ValueError", status |-> 0, detail |-> "", user |-> NoUser]
         ELSE IF ~user_is_active(payload.sub)
         THEN Unauthorized("User not found or inactive")
         ELSE [exc |-> "", status |-> 0, detail |-> "", user |-> payload.sub]

\* get_current_user, lines 22-55: what the dependency returns or raises.
\* UUID(user_id) at line 45 is inside no try block: its ValueError leaves
\* the function as it is.
current_user(cookies, t) ==
    IF cookies = <<>> THEN Unauthorized("Not authenticated")
    ELSE LET payload == decode_token(cookies[1], t) IN
         IF payload = NoPayload \/ payload.type # "access"
         THEN Unauthorized("Invalid token")
         ELSE IF payload.sub = "" THEN Unauthorized("Invalid token payload")
         ELSE IF payload.sub \notin ValidUUIDs
         THEN [exc |-> "ValueError", status |-> 0, detail |-> "", user |-> NoUser]
         ELSE IF ~user_is_active(payload.sub)
         THEN Unauthorized("User not found or inactive")
         ELSE [exc |-> "", status |-> 0, detail |-> "", user |-> payload.sub]

\* One request through the dependency: a single SELECT, nothing written.
\* The handler keeps the token of an authenticated request.
get_current_user(p, cookies) ==
    /\ tx[p].pc = "idle"
    /\ LET out == current_user(cookies, now) IN
       tx' = [tx EXCEPT ![p] =
                [Idle EXCEPT !.pc = "done", !.op = "current_user",
                             !.exc = out.exc, !.status = out.status,
                             !.detail = out.detail, !.user = out.user,
                             !.result = (out.exc = ""),
                             !.raised = (out.exc # ""),
                             !.token = IF out.exc = "" THEN cookies[1] ELSE NoToken]]
    /\ UNCHANGED <<now, users, refresh_tokens, password_reset_tokens, preReset>>
    /\ UNCHANGED <<issueVars, roleVars, codecVars, setupVars, treeVars>>

\* ----------------------------------------------- user administration
\* UserService.deactivate_user, and update_user(is_active=...), each one
\* UPDATE users in a transaction of its own.
deactivate_user(user_id) ==
    /\ users[user_id].is_active
    /\ \A q \in Procs : user_id \notin LockedUsers(q)
    /\ users' = [users EXCEPT ![user_id].is_active = FALSE]
    /\ UNCHANGED <<now, refresh_tokens, password_reset_tokens, tx, preReset>>
    /\ UNCHANGED <<issueVars, roleVars, codecVars, setupVars, treeVars>>

update_user(user_id, is_active) ==
    /\ users[user_id].is_active # is_active
    /\ \A q \in Procs : user_id \notin LockedUsers(q)
    /\ users' = [users EXCEPT ![user_id].is_active = is_active]
    /\ UNCHANGED <<now, refresh_tokens, password_reset_tokens, tx, preReset>>
    /\ UNCHANGED <<issueVars, roleVars, codecVars, setupVars, treeVars>>

\* ProfileService.change_password: the current password is verified, then
\* the new hash is written.
change_password(user_id, current_password, new_password) ==
    /\ \A q \in Procs : user_id \notin LockedUsers(q)
    /\ users' = IF verify_password(current_password, users[user_id].hashed_password)
                THEN [users EXCEPT ![user_id].hashed_password = hash_password(new_password)]
                ELSE users
    /\ UNCHANGED <<now, refresh_tokens, password_reset_tokens, tx, preReset>>
    /\ UNCHANGED <<issueVars, roleVars, codecVars, setupVars, treeVars>>

\* The administrator's reset that also revokes the user's sessions.
reset_password_revoking(user_id, new_password) ==
    /\ \A q \in Procs : user_id \notin LockedUsers(q)
    /\ users' = [users EXCEPT ![user_id].hashed_password = hash_password(new_password)]
    /\ refresh_tokens' =
          [i \in 1..Len(refresh_tokens) |->
             IF refresh_tokens[i].user_id = user_id /\ refresh_tokens[i].revoked_at = NULL
             THEN [refresh_tokens[i] EXCEPT !.revoked_at = now]
             ELSE refresh_tokens[i]]
    /\ UNCHANGED <<now, password_reset_tokens, tx, preReset>>
    /\ UNCHANGED <<issueVars, roleVars, codecVars, setupVars, treeVars>>

\* UserService.reset_password: the administrator sets a new hash.
reset_password(user_id, new_password) ==
    /\ \A q \in Procs : user_id \notin LockedUsers(q)
    /\ users' = [users EXCEPT ![user_id].hashed_password = hash_password(new_password)]
    /\ UNCHANGED <<now, refresh_tokens, password_reset_tokens, tx, preReset>>
    /\ UNCHANGED <<issueVars, roleVars, codecVars, setupVars, treeVars>>

\* LocalAuthProvider.change_password: the new hash is written.
local_change_password(user_id, new_password) ==
    /\ \A q \in Procs : user_id \notin LockedUsers(q)
    /\ users' = [users EXCEPT ![user_id].hashed_password = hash_password(new_password)]
    /\ UNCHANGED <<now, refresh_tokens, password_reset_tokens, tx, preReset>>
    /\ UNCHANGED <<issueVars, roleVars, codecVars, setupVars, treeVars>>

\* ---------------------------------------------------- issue creation
\* The transactions that hold the FOR UPDATE lock of a project's row.
ProjectLockHolders(project_id) ==
    {q \in IssueProcs : itx[q].pc \in {"max", "insert", "commit"} /\ itx[q].project = project_id}

\* A lock of the whole projects table in place of the row's.
project_row_free_table_lock(p, project_id) ==
    \A other \in Projects : ProjectLockHolders(other) \ {p} = {}

\* The SELECT without with_for_update(): it never waits.
project_row_free_unlocked(p, project_id) == TRUE

\* _generate_issue_key, lines 490-493: SELECT ... FOR UPDATE returns once no
\* other transaction holds the lock of the project's row.
project_row_free(p, project_id) == ProjectLockHolders(project_id) \ {p} = {}

IssueIdle == [pc |-> "idle", project |-> "", max_number |-> 0, raised |-> FALSE]

create_issue_lock(p, project_id) ==
    /\ itx[p].pc = "idle"
    /\ Len(issues) + Cardinality({q \in IssueProcs : itx[q].pc \in {"max", "insert", "commit"}})
          < MaxIssues
    /\ project_row_free(p, project_id)
    /\ itx' = [itx EXCEPT ![p] = [IssueIdle EXCEPT !.pc = "max", !.project = project_id]]
    /\ UNCHANGED issues
    /\ UNCHANGED <<authVars, roleVars, codecVars, setupVars, treeVars>>

\* The issue numbers of a project among the committed rows (soft-deleted
\* rows are rows like any other).
IssuesOf(project_id) == {i \in 1..Len(issues) : issues[i].project_id = project_id}

IssueNumbers(project_id) == {issues[i].issue_number : i \in IssuesOf(project_id)}

SetMax(S) == CHOOSE m \in S : \A n \in S : n <= m

\* The max taken over the rows that are not soft-deleted only.
create_issue_max_live_only(p) ==
    /\ itx[p].pc = "max"
    /\ LET live == {issues[i].issue_number :
                      i \in {j \in IssuesOf(itx[p].project) : ~issues[j].deleted}}
       IN itx' = [itx EXCEPT ![p].pc = "insert",
                             ![p].max_number = IF live = {} THEN 0 ELSE SetMax(live)]
    /\ UNCHANGED issues
    /\ UNCHANGED <<authVars, roleVars, codecVars, setupVars, treeVars>>

\* _generate_issue_key, lines 496-501: coalesce(max(issue_number), 0).
create_issue_max(p) ==
    /\ itx[p].pc = "max"
    /\ itx' = [itx EXCEPT ![p].pc = "insert",
                          ![p].max_number =
                              IF IssueNumbers(itx[p].project) = {} THEN 0
                              ELSE SetMax(IssueNumbers(itx[p].project))]
    /\ UNCHANGED issues
    /\ UNCHANGED <<authVars, roleVars, codecVars, setupVars, treeVars>>

\* The row create_issue builds: next_number and "{project.key}-{next_number}".
new_issue(project_id, max_number) ==
    [project_id |-> project_id, issue_number |-> max_number + 1,
     key |-> <<project_id, "-", max_number + 1>>, deleted |-> FALSE]

\* create_issue, lines 68-82: the INSERT under uq_issues_project_number. It
\* waits for an open transaction that inserted the same (project, number),
\* and raises IntegrityError against a committed one; get_db rolls back and
\* the handler is idle again, its request answered with the error.
create_issue_insert(p) ==
    /\ itx[p].pc = "insert"
    /\ LET row == new_issue(itx[p].project, itx[p].max_number) IN
       /\ \A q \in IssueProcs \ {p} :
             ~(itx[q].pc = "commit" /\ itx[q].project = row.project_id
                 /\ itx[q].max_number = itx[p].max_number)
       /\ itx' = [itx EXCEPT ![p] =
                    IF row.issue_number \in IssueNumbers(row.project_id)
                    THEN [IssueIdle EXCEPT !.raised = TRUE]
                    ELSE [itx[p] EXCEPT !.pc = "commit"]]
    /\ UNCHANGED issues
    /\ UNCHANGED <<authVars, roleVars, codecVars, setupVars, treeVars>>

create_issue_commit(p) ==
    /\ itx[p].pc = "commit"
    /\ issues' = Append(issues, new_issue(itx[p].project, itx[p].max_number))
    /\ itx' = [itx EXCEPT ![p] = IssueIdle]
    /\ UNCHANGED <<authVars, roleVars, codecVars, setupVars, treeVars>>

\* delete_issue, lines 177-187: the soft delete stamps deleted_at.
delete_issue(issue_id) ==
    /\ issue_id \in 1..Len(issues)
    /\ issues' = [issues EXCEPT ![issue_id].deleted = TRUE]
    /\ UNCHANGED itx
    /\ UNCHANGED <<authVars, roleVars, codecVars, setupVars, treeVars>>

\* restore_issue, lines 189-197: deleted_at is cleared.
restore_issue(issue_id) ==
    /\ issue_id \in 1..Len(issues)
    /\ issues' = [issues EXCEPT ![issue_id].deleted = FALSE]
    /\ UNCHANGED itx
    /\ UNCHANGED <<authVars, roleVars, codecVars, setupVars, treeVars>>

\* A client of the database that inserts the next issue of a project
\* without taking the project's row lock: the breach of the locking
\* discipline that the unique constraint is the last defence against.
foreign_insert(project_id) ==
    /\ Len(issues) + Cardinality({q \in IssueProcs : itx[q].pc \in {"max", "insert", "commit"}})
          < MaxIssues
    /\ \A q \in IssueProcs :
          ~(itx[q].pc = "commit" /\ itx[q].project = project_id
              /\ itx[q].max_number = Cardinality(IssuesOf(project_id)))
    /\ issues' = Append(issues, new_issue(project_id,
                                           IF IssueNumbers(project_id) = {} THEN 0
                                           ELSE SetMax(IssueNumbers(project_id))))
    /\ UNCHANGED itx
    /\ UNCHANGED <<authVars, roleVars, codecVars, setupVars, treeVars>>

\* -------------------------------------------------- issue hierarchy
\* Issue ids a request can name: the rows of the table and ids of no row.
IssueIds == 1..MaxIssues

\* get_issue: the row with this id, soft-deleted or not.
get_issue(issue_id) == issue_id \in 1..Len(issues)

\* get_issue_by_key_or_404: the row is there and is not soft-deleted.
get_issue_by_key_or_404(issue_id) == get_issue(issue_id) /\ ~issues[issue_id].deleted

\* IssueService.update_issue with parent_id given: the issue's parent_id is
\* assigned as it comes. The foreign key to issues.id refuses the id of no
\* row, and the request fails with nothing written.
update_issue(issue_id, parent) ==
    /\ parent_id' = IF get_issue(issue_id) /\ (parent = NULL \/ get_issue(parent))
                    THEN [parent_id EXCEPT ![issue_id] = parent]
                    ELSE parent_id
    /\ UNCHANGED <<issues, itx>>
    /\ UNCHANGED <<authVars, roleVars, codecVars, setupVars>>

\* IssueService.set_parent: a parent that is given must exist and must not
\* be the issue itself; then update_issue.
set_parent(issue_id, parent) ==
    IF parent # NULL /\ (~get_issue(parent) \/ parent = issue_id)
    THEN UNCHANGED vars
    ELSE update_issue(issue_id, parent)

\* POST /issues/{issue_key}/subtasks with an issue_id: both issues exist,
\* are of one project and are different; then set_parent.
create_or_link_subtask(parent, issue_id) ==
    IF /\ get_issue_by_key_or_404(parent)
       /\ get_issue(issue_id)
       /\ issues[issue_id].project_id = issues[parent].project_id
       /\ issue_id # parent
    THEN set_parent(issue_id, parent)
    ELSE UNCHANGED vars

\* DELETE /issues/{issue_key}/subtasks/{subtask_key}: the subtask's parent
\* is cleared when it is this parent.
unlink_subtask(parent, issue_id) ==
    IF /\ get_issue_by_key_or_404(parent)
       /\ get_issue(issue_id)
       /\ parent_id[issue_id] = parent
    THEN set_parent(issue_id, NULL)
    ELSE UNCHANGED vars

\* Issues created by one client and arranged into parents and subtasks.
NextHierarchy ==
    \/ \E p \in SoloProcs, project_id \in Projects : create_issue_lock(p, project_id)
    \/ \E p \in SoloProcs : create_issue_max(p)
    \/ \E p \in SoloProcs : create_issue_insert(p)
    \/ \E p \in SoloProcs : create_issue_commit(p)
    \/ \E issue_id \in IssueIds, parent \in IssueIds \cup {NULL} : update_issue(issue_id, parent)
    \/ \E issue_id \in IssueIds, parent \in IssueIds \cup {NULL} : set_parent(issue_id, parent)
    \/ \E parent \in IssueIds, issue_id \in IssueIds : create_or_link_subtask(parent, issue_id)
    \/ \E parent \in IssueIds, issue_id \in IssueIds : unlink_subtask(parent, issue_id)

SpecHierarchy == Init /\ [][NextHierarchy]_vars

\* ------------------------------------------------------------ roles
\* users.role_id is NOT NULL: every user has a role.
UserRole(user_id) == IF user_id = "u1" THEN "r1" ELSE "r2"

\* A check that lets every role named Admin through.
has_permission_admin_bypass(role_id, codename) ==
    \/ roles[role_id].name = "Admin"
    \/ \E permission \in roles[role_id].permissions : permission = codename

\* Role.has_permission: any(p.codename == codename for p in self.permissions).
has_permission(role_id, codename) ==
    \E permission \in roles[role_id].permissions : permission = codename

\* require_permission(permission), the checker applied to a loaded user.
require_permission(user_id, permission) ==
    /\ checked' = IF has_permission(UserRole(user_id), permission)
                  THEN [user |-> user_id, permission |-> permission,
                        exc |-> "", status |-> 0]
                  ELSE [user |-> user_id, permission |-> permission,
                        exc |-> "HTTPException", status |-> 403]
    /\ UNCHANGED <<roles, codec>>
    /\ UNCHANGED <<authVars, issueVars, setupVars, treeVars>>

\* RoleService.update_role: a name that is given and differs is refused
\* when another role has it and else assigned; permission_ids that are given
\* replace the role's permissions by the catalogue's rows with those ids. The
\* role update endpoint passes the request's fields through.
update_role(role_id, name, replace_permissions, permission_ids) ==
    /\ LET duplicate == /\ name # NoName
                        /\ name # roles[role_id].name
                        /\ \E other \in RoleIds \ {role_id} : roles[other].name = name
       IN
       roles' = IF duplicate THEN roles
                ELSE [roles EXCEPT
                        ![role_id].name = IF name # NoName THEN name ELSE @,
                        ![role_id].permissions =
                            IF replace_permissions
                            THEN permission_ids \cap Permissions
                            ELSE @]
    /\ UNCHANGED <<checked, codec>>
    /\ UNCHANGED <<authVars, issueVars, setupVars, treeVars>>

\* Role management and the permission check.
NextRoles ==
    \/ \E user_id \in Users, permission \in Codenames : require_permission(user_id, permission)
    \/ \E role_id \in RoleIds, name \in RoleNames \cup {NoName},
             replace_permissions \in BOOLEAN, permission_ids \in SUBSET Codenames :
          update_role(role_id, name, replace_permissions, permission_ids)

SpecRoles == Init /\ [][NextRoles]_vars

\* ------------------------------------------------------- token codec
\* jwt.encode turns a datetime claim into whole seconds since the epoch
\* (timegm of its UTC time tuple), and jwt.decode reads the clock the same
\* way.
timegm(instant) == instant \div TicksPerSecond

\* create_access_token / create_refresh_token, lines 36-42 and 51-57: the
\* payload with its datetime claims, signed.
encode(user_id, type, iat, expire, key) ==
    /\ expire >= iat
    /\ codec' = [claims |-> [sub |-> user_id, exp |-> expire, iat |-> iat, type |-> type],
                 key |-> key,
                 token |-> jwt_encode([sub |-> user_id, exp |-> timegm(expire),
                                       iat |-> timegm(iat), type |-> type], key),
                 at |-> NULL, payload |-> NoPayload, decoded |-> FALSE]
    /\ UNCHANGED <<roles, checked>>
    /\ UNCHANGED <<authVars, issueVars, setupVars, treeVars>>

\* decode_token at an instant of the clock.
decode(instant) ==
    /\ codec.token # NoToken
    /\ codec' = [codec EXCEPT !.at = instant,
                              !.payload = decode_token(codec.token, timegm(instant)),
                              !.decoded = TRUE]
    /\ UNCHANGED <<roles, checked>>
    /\ UNCHANGED <<authVars, issueVars, setupVars, treeVars>>

\* Tokens made and read back.
NextCodec ==
    \/ \E user_id \in Users, type \in {"access", "refresh"}, iat \in Instants,
             expire \in Instants, key \in {SecretKey, ForgedKey} :
          encode(user_id, type, iat, expire, key)
    \/ \E instant \in Instants : decode(instant)

SpecCodec == Init /\ [][NextCodec]_vars

\* ------------------------------------------------------ setup wizard
SetupIdle ==
    [pc |-> "idle", via |-> "", instance_name |-> "", base_url |-> "", id |-> "", row |-> 0]

Answer(op, via, status, location) ==
    [op |-> op, via |-> via, status |-> status, location |-> location]

\* _get_instance_config: select(InstanceConfig).limit(1) has no ORDER BY, so
\* any row of the table can be the one returned; 0 stands for None.
get_instance_config ==
    IF instance_config = <<>> THEN {0} ELSE 1..Len(instance_config)

\* is_setup_complete, for the row its query returned.
is_setup_complete(config) == config # 0 /\ instance_config[config].setup_completed

\* _admin_exists: the Admin role exists and has a user.
admin_exists == admin_users # {}

\* The ids held by committed rows and by rows open transactions inserted.
HeldConfigIds ==
    {instance_config[i].id : i \in 1..Len(instance_config)}
        \cup {stx[q].id : q \in {r \in SetupProcs : stx[r].pc \in {"insert", "commit_insert"}}}

\* No open transaction holds the lock of a row of instance_config.
ConfigRowsFree(p) == \A q \in SetupProcs \ {p} : stx[q].pc # "commit_update"

\* save_instance_settings, lines 80-89 and 104-106, behind the guard of its
\* caller: the API route depends on check_setup_not_complete, the form
\* handler setup_instance_submit calls the service directly. The new row
\* takes its id from uuid4.
save_instance_settings_select(p, via, instance_name, base_url, id) ==
    /\ stx[p].pc = "idle"
    /\ \E guard_config \in get_instance_config, config \in get_instance_config :
          IF via = "api" /\ is_setup_complete(guard_config)
          THEN /\ answer' = Answer("save_instance_settings", via, 403, "")
               /\ UNCHANGED stx
          ELSE /\ stx' = [stx EXCEPT ![p] =
                            [pc |-> IF config = 0 THEN "insert" ELSE "update",
                             via |-> via, instance_name |-> instance_name,
                             base_url |-> base_url,
                             id |-> IF config = 0 THEN id ELSE "",
                             row |-> config]]
               /\ UNCHANGED answer
    /\ UNCHANGED <<instance_config, admin_users, setup_completed_cache>>
    /\ UNCHANGED <<authVars, issueVars, roleVars, codecVars, treeVars>>

\* save_instance_settings, lines 90-103: the flush sends the INSERT. The
\* primary key is the table's only unique constraint: the INSERT waits for
\* an open transaction that inserted the same id, and against a committed
\* row with that id it raises IntegrityError, after which the handler rolls
\* back, reads the table again and goes on as an update.
save_instance_settings_insert(p) ==
    /\ stx[p].pc = "insert"
    /\ \A q \in SetupProcs \ {p} : ~(stx[q].pc = "commit_insert" /\ stx[q].id = stx[p].id)
    /\ IF \E i \in 1..Len(instance_config) : instance_config[i].id = stx[p].id
       THEN \E config \in get_instance_config :
               stx' = [stx EXCEPT ![p].pc = "update", ![p].id = "", ![p].row = config]
       ELSE stx' = [stx EXCEPT ![p].pc = "commit_insert"]
    /\ UNCHANGED <<instance_config, admin_users, setup_completed_cache, answer>>
    /\ UNCHANGED <<authVars, issueVars, roleVars, codecVars, treeVars>>

\* save_instance_settings, lines 101-103 and 105-107: the flush sends
\* UPDATE instance_config SET instance_name, base_url WHERE id, which takes
\* the row's lock.
save_instance_settings_update(p) ==
    /\ stx[p].pc = "update"
    /\ ConfigRowsFree(p)
    /\ stx' = [stx EXCEPT ![p].pc = "commit_update"]
    /\ UNCHANGED <<instance_config, admin_users, setup_completed_cache, answer>>
    /\ UNCHANGED <<authVars, issueVars, roleVars, codecVars, treeVars>>

\* The handler answers (the API with the row, the form handler with a
\* redirect to the next step) and get_db commits.
save_instance_settings_commit(p) ==
    /\ stx[p].pc \in {"commit_insert", "commit_update"}
    /\ instance_config' =
          IF stx[p].pc = "commit_insert"
          THEN Append(instance_config,
                      [id |-> stx[p].id, instance_name |-> stx[p].instance_name,
                       base_url |-> stx[p].base_url, setup_completed |-> FALSE,
                       smtp_configured |-> FALSE])
          ELSE [instance_config EXCEPT ![stx[p].row].instance_name = stx[p].instance_name,
                                       ![stx[p].row].base_url = stx[p].base_url]
    /\ answer' = IF stx[p].via = "api"
                 THEN Answer("save_instance_settings", "api", 200, "")
                 ELSE Answer("save_instance_settings", "html", 303, "/setup/admin")
    /\ stx' = [stx EXCEPT ![p] = SetupIdle]
    /\ UNCHANGED <<admin_users, setup_completed_cache>>
    /\ UNCHANGED <<authVars, issueVars, roleVars, codecVars, treeVars>>

\* POST /api/v1/setup/admin (create_admin) and POST /setup/admin
\* (setup_admin_submit) around SetupService.create_admin_user: the route
\* is guarded by check_setup_not_complete, the form handler is not; both
\* test the password's length, the form handler its confirmation too.
create_admin(via, email, password_length, password_confirmed) ==
    /\ \E guard_config \in get_instance_config :
          IF via = "api"
          THEN IF is_setup_complete(guard_config)
               THEN /\ answer' = Answer("create_admin", via, 403, "")
                    /\ UNCHANGED admin_users
               ELSE IF password_length < MinPasswordLength
               THEN /\ answer' = Answer("create_admin", via, 400, "")
                    /\ UNCHANGED admin_users
               ELSE IF email \in admin_users
               THEN /\ answer' = Answer("create_admin", via, 409, "")
                    /\ UNCHANGED admin_users
               ELSE /\ answer' = Answer("create_admin", via, 201, "")
                    /\ admin_users' = admin_users \cup {email}
          ELSE IF ~password_confirmed \/ password_length < MinPasswordLength
                  \/ email \in admin_users
               THEN /\ answer' = Answer("create_admin", via, 200, "")
                    /\ UNCHANGED admin_users
               ELSE /\ answer' = Answer("create_admin", via, 303, "/setup/smtp")
                    /\ admin_users' = admin_users \cup {email}
    /\ UNCHANGED <<instance_config, setup_completed_cache, stx>>
    /\ UNCHANGED <<authVars, issueVars, roleVars, codecVars, treeVars>>

\* POST /api/v1/setup/smtp around SetupService.configure_smtp.
configure_smtp ==
    /\ ConfigRowsFree("")
    /\ \E guard_config \in get_instance_config, config \in get_instance_config :
          IF is_setup_complete(guard_config)
          THEN /\ answer' = Answer("configure_smtp", "api", 403, "")
               /\ UNCHANGED instance_config
          ELSE IF config = 0
          THEN /\ answer' = Answer("configure_smtp", "api", 400, "")
               /\ UNCHANGED instance_config
          ELSE /\ answer' = Answer("configure_smtp", "api", 200, "")
               /\ instance_config' = [instance_config EXCEPT ![config].smtp_configured = TRUE]
    /\ UNCHANGED <<admin_users, setup_completed_cache, stx>>
    /\ UNCHANGED <<authVars, issueVars, roleVars, codecVars, treeVars>>

\* POST /api/v1/setup/skip-smtp around SetupService.skip_smtp, which
\* writes nothing.
skip_smtp ==
    /\ \E guard_config \in get_instance_config, config \in get_instance_config :
          answer' = IF is_setup_complete(guard_config)
                    THEN Answer("skip_smtp", "api", 403, "")
                    ELSE IF config = 0 THEN Answer("skip_smtp", "api", 400, "")
                    ELSE Answer("skip_smtp", "api", 200, "")
    /\ UNCHANGED <<instance_config, admin_users, setup_completed_cache, stx>>
    /\ UNCHANGED <<authVars, issueVars, roleVars, codecVars, treeVars>>

\* SetupService.complete_setup on the row its query returned: the table
\* after it, unchanged when the prerequisites are not met.
completed(config) ==
    IF config = 0 \/ ~admin_exists THEN instance_config
    ELSE [instance_config EXCEPT ![config].setup_completed = TRUE]

\* POST /api/v1/setup/complete: the route complete_setup. It leaves the
\* middleware's cache alone.
complete_setup ==
    /\ ConfigRowsFree("")
    /\ \E guard_config \in get_instance_config, config \in get_instance_config :
          IF is_setup_complete(guard_config)
          THEN /\ answer' = Answer("complete_setup", "api", 403, "")
               /\ UNCHANGED instance_config
          ELSE IF config = 0 \/ ~admin_exists
          THEN /\ answer' = Answer("complete_setup", "api", 400, "")
               /\ UNCHANGED instance_config
          ELSE /\ answer' = Answer("complete_setup", "api", 200, "")
               /\ instance_config' = completed(config)
    /\ UNCHANGED <<admin_users, setup_completed_cache, stx>>
    /\ UNCHANGED <<authVars, issueVars, roleVars, codecVars, treeVars>>

\* POST /setup/smtp (setup_smtp_submit): configure_smtp when a host was
\* given, then complete_setup, then reset_setup_cache.
setup_smtp_submit(smtp_host_given) ==
    /\ ConfigRowsFree("")
    /\ \E smtp_config \in get_instance_config, config \in get_instance_config :
          instance_config' =
             [i \in 1..Len(instance_config) |->
                [completed(config)[i] EXCEPT
                   !.smtp_configured = IF smtp_host_given /\ i = smtp_config THEN TRUE ELSE @]]
    /\ setup_completed_cache' = "None"
    /\ answer' = Answer("setup_smtp_submit", "html", 303, "/setup/complete")
    /\ UNCHANGED <<admin_users, stx>>
    /\ UNCHANGED <<authVars, issueVars, roleVars, codecVars, treeVars>>

\* GET /setup/complete (setup_complete): when get_setup_status says setup
\* is not completed, complete_setup and reset_setup_cache.
setup_complete ==
    /\ ConfigRowsFree("")
    /\ \E status_config \in get_instance_config, config \in get_instance_config :
          IF is_setup_complete(status_config)
          THEN UNCHANGED <<instance_config, setup_completed_cache>>
          ELSE /\ instance_config' = completed(config)
               /\ setup_completed_cache' = "None"
    /\ answer' = Answer("setup_complete", "html", 200, "")
    /\ UNCHANGED <<admin_users, stx>>
    /\ UNCHANGED <<authVars, issueVars, roleVars, codecVars, treeVars>>

\* SetupCheckMiddleware.BYPASS_PREFIXES.
BYPASS_PREFIXES ==
    {<<"/", "setup">>, <<"/", "health">>, <<"/", "api", "/v1", "/health">>,
     <<"/", "api", "/v1", "/setup">>, <<"/", "static">>}

\* str.startswith.
startswith(path, prefix) ==
    Len(path) >= Len(prefix) /\ SubSeq(path, 1, Len(prefix)) = prefix

\* SetupCheckMiddleware.dispatch: a bypassed path goes to the application;
\* otherwise the cached status is filled by _check_setup_status when it is
\* None, and a status that is not true answers with the redirect.
dispatch(path) ==
    /\ \E config \in get_instance_config :
          LET bypass == \E prefix \in BYPASS_PREFIXES : startswith(path, prefix)
              status == IF setup_completed_cache # "None" THEN setup_completed_cache
                        ELSE IF is_setup_complete(config) THEN "True" ELSE "False"
          IN
          IF bypass
          THEN /\ answer' = Answer("dispatch", "", 200, "")
               /\ UNCHANGED setup_completed_cache
          ELSE /\ setup_completed_cache' = status
               /\ answer' = IF status = "True"
                            THEN Answer("dispatch", "", 200, "")
                            ELSE Answer("dispatch", "", 307, "/setup")
    /\ UNCHANGED <<instance_config, admin_users, stx>>
    /\ UNCHANGED <<authVars, issueVars, roleVars, codecVars, treeVars>>

\* Instance settings saved by concurrent requests.
NextSaveSettings ==
    \/ \E p \in SetupProcs, via \in {"api", "html"}, instance_name \in InstanceNames,
             base_url \in BaseUrls, id \in Draw(ConfigIds, HeldConfigIds) :
          save_instance_settings_select(p, via, instance_name, base_url, id)
    \/ \E p \in SetupProcs : save_instance_settings_insert(p)
    \/ \E p \in SetupProcs : save_instance_settings_update(p)
    \/ \E p \in SetupProcs : save_instance_settings_commit(p)

SpecSaveSettings == Init /\ [][NextSaveSettings]_vars

\* The setup wizard walked through by one client, and the requests the
\* middleware sees.
NextSetup ==
    \/ \E p \in WizardProcs, via \in {"api", "html"}, instance_name \in InstanceNames,
             base_url \in BaseUrls, id \in Draw(ConfigIds, HeldConfigIds) :
          save_instance_settings_select(p, via, instance_name, base_url, id)
    \/ \E p \in WizardProcs : save_instance_settings_insert(p)
    \/ \E p \in WizardProcs : save_instance_settings_update(p)
    \/ \E p \in WizardProcs : save_instance_settings_commit(p)
    \/ \E via \in {"api", "html"}, email \in AdminEmails,
             password_length \in PasswordLengths, password_confirmed \in BOOLEAN :
          create_admin(via, email, password_length, password_confirmed)
    \/ configure_smtp
    \/ skip_smtp
    \/ complete_setup
    \/ \E smtp_host_given \in BOOLEAN : setup_smtp_submit(smtp_host_given)
    \/ setup_complete
    \/ \E path \in Paths : dispatch(path)

SpecSetup == Init /\ [][NextSetup]_vars

\* Session lifecycle: login, logout, refresh, user administration.
Next ==
    \/ Tick
    \/ \E p \in Procs : Return(p)
    \/ \E p \in Procs, email \in Emails, password \in Passwords :
          login_authenticate(p, email, password)
    \/ \E p \in Procs : login_flush(p)
    \/ \E p \in Procs : login_commit(p)
    \/ \E p \in Procs, refresh_token \in Tokens(now) : logout_select(p, refresh_token)
    \/ \E p \in Procs : logout_flush(p)
    \/ \E p \in Procs : logout_commit(p)
    \/ \E p \in Procs, refresh_token \in Tokens(now) : refresh_select_tokens(p, refresh_token)
    \/ \E p \in Procs : refresh_select_user(p)
    \/ \E user_id \in Users : deactivate_user(user_id)
    \/ \E user_id \in Users : update_user(user_id, TRUE)

Spec == Init /\ [][Next]_vars

\* Sessions and the requests they authenticate.
NextAccess ==
    \/ Next
    \/ \E p \in Procs, cookies \in Cookies(now) : get_current_user(p, cookies)

SpecAccess == Init /\ [][NextAccess]_vars

\* Credential flows: login and the password reset, with user administration.
NextReset ==
    \/ Tick
    \/ \E p \in Procs : Return(p)
    \/ \E p \in Procs, email \in Emails, password \in Passwords :
          login_authenticate(p, email, password)
    \/ \E p \in Procs : login_flush(p)
    \/ \E p \in Procs : login_commit(p)
    \/ \E p \in Procs, email \in Emails, selector \in Draw(Selectors, HeldSelectors),
             validator \in Draw(Validators, HeldValidators) :
          request_select(p, email, selector, validator)
    \/ \E p \in Procs : request_flush(p)
    \/ \E p \in Procs : request_commit(p)
    \/ \E p \in Procs, token \in ResetTokens, new_password \in Passwords :
          confirm_select(p, token, new_password)
    \/ \E p \in Procs : confirm_flush(p)
    \/ \E p \in Procs : confirm_revoke(p)
    \/ \E p \in Procs : confirm_commit(p)
    \/ \E user_id \in Users : deactivate_user(user_id)
    \/ \E user_id \in Users : update_user(user_id, TRUE)

SpecReset == Init /\ [][NextReset]_vars

\* Sessions and password resets of one client at a time, as the clock
\* runs past the rows' expiry.
NextExpiry ==
    \/ Tick
    \/ \E p \in SoloProcs : Return(p)
    \/ \E p \in SoloProcs, email \in Emails, password \in Passwords :
          login_authenticate(p, email, password)
    \/ \E p \in SoloProcs : login_flush(p)
    \/ \E p \in SoloProcs : login_commit(p)
    \/ \E p \in SoloProcs, refresh_token \in Tokens(now) : logout_select(p, refresh_token)
    \/ \E p \in SoloProcs : logout_flush(p)
    \/ \E p \in SoloProcs : logout_commit(p)
    \/ \E p \in SoloProcs, refresh_token \in Tokens(now) : refresh_select_tokens(p, refresh_token)
    \/ \E p \in SoloProcs : refresh_select_user(p)
    \/ \E p \in SoloProcs, email \in Emails, selector \in Draw(Selectors, HeldSelectors),
             validator \in Draw(Validators, HeldValidators) :
          request_select(p, email, selector, validator)
    \/ \E p \in SoloProcs : request_flush(p)
    \/ \E p \in SoloProcs : request_commit(p)
    \/ \E p \in SoloProcs, token \in ResetTokens, new_password \in Passwords :
          confirm_select(p, token, new_password)
    \/ \E p \in SoloProcs : confirm_flush(p)
    \/ \E p \in SoloProcs : confirm_revoke(p)
    \/ \E p \in SoloProcs : confirm_commit(p)

SpecExpiry == Init /\ [][NextExpiry]_vars

\* Password resets, with several tokens outstanding at once.
NextOutstanding ==
    \/ Tick
    \/ \E p \in Procs : Return(p)
    \/ \E p \in Procs, email \in Emails, selector \in Draw(Selectors, HeldSelectors),
             validator \in Draw(Validators, HeldValidators) :
          request_select_outstanding(p, email, selector, validator)
    \/ \E p \in Procs : request_flush(p)
    \/ \E p \in Procs : request_commit(p)
    \/ \E p \in Procs, token \in ResetTokens, new_password \in Passwords :
          confirm_select(p, token, new_password)
    \/ \E p \in Procs : confirm_flush(p)
    \/ \E p \in Procs : confirm_revoke(p)
    \/ \E p \in Procs : confirm_commit(p)

SpecOutstanding == Init /\ [][NextOutstanding]_vars

\* Everything that touches a session row or a credential, for one client
\* and the administrator.
NextRevocation ==
    \/ NextExpiry
    \/ \E user_id \in Users, current_password \in Passwords, new_password \in Passwords :
          change_password(user_id, current_password, new_password)
    \/ \E user_id \in Users, new_password \in Passwords : reset_password(user_id, new_password)
    \/ \E user_id \in Users, new_password \in Passwords :
          local_change_password(user_id, new_password)
    \/ \E user_id \in Users : deactivate_user(user_id)
    \/ \E user_id \in Users : update_user(user_id, TRUE)

SpecRevocation == Init /\ [][NextRevocation]_vars

\* Issue creation.
NextIssues ==
    \/ \E p \in IssueProcs, project_id \in Projects : create_issue_lock(p, project_id)
    \/ \E p \in IssueProcs : create_issue_max(p)
    \/ \E p \in IssueProcs : create_issue_insert(p)
    \/ \E p \in IssueProcs : create_issue_commit(p)

SpecIssues == Init /\ [][NextIssues]_vars

\* Issue creation with soft delete and restore.
NextIssueLife ==
    \/ NextIssues
    \/ \E issue_id \in 1..MaxIssues : delete_issue(issue_id)
    \/ \E issue_id \in 1..MaxIssues : restore_issue(issue_id)

SpecIssueLife == Init /\ [][NextIssueLife]_vars

\* Issue creation next to a writer that takes no lock.
NextIssuesForeign ==
    \/ NextIssues
    \/ \E project_id \in Projects : foreign_insert(project_id)

SpecIssuesForeign == Init /\ [][NextIssuesForeign]_vars

\* ============================================================ claims
dbVars == <<users, refresh_tokens, password_reset_tokens>>

\* C1: creations of issues running concurrently on a project that started
\* empty all commit (none is answered with an error), no (project, number)
\* pair repeats, and the numbers of each project are exactly 1..N for its N
\* committed issues, each key being "<project key>-<number>".
C1_IssueNumbersGapless ==
    /\ \A p \in IssueProcs : ~itx[p].raised
    /\ \A project_id \in Projects :
          /\ IssueNumbers(project_id) = 1..Cardinality(IssuesOf(project_id))
          /\ \A i \in IssuesOf(project_id) :
                issues[i].key = <<project_id, "-", issues[i].issue_number>>

\* Two issues of one project are committed and a third creation, which ran
\* while another handler was also creating, is about to commit.
C1_Witness ==
    \E project_id \in Projects, p \in IssueProcs :
       /\ Cardinality(IssuesOf(project_id)) >= 2
       /\ itx[p].pc = "commit" /\ itx[p].project = project_id
       /\ \E q \in IssueProcs \ {p} : itx[q].pc # "idle"

\* C2: of two concurrent confirm_password_reset calls with one token, at most
\* one succeeds: a call that commits its success finds the row still unused.
C2_AtMostOneConfirmSucceeds ==
    [][\A p \in Procs :
          (tx[p].pc = "confirm_commit" /\ tx'[p].pc = "idle")
             => password_reset_tokens[tx[p].rid].used_at = NULL]_vars

\* The reset token naming row i, as the e-mail carries it.
TokenOfRow(i) ==
    <<password_reset_tokens[i].token_selector, ".", password_reset_tokens[i].token_hash[2]>>

\* C3: once a confirmation has committed, the row stays used, no token with
\* its selector is found again, and every confirmation started afterwards
\* with that token returns failure and changes no row.
C3_UsedTokenStaysUsed ==
    [][/\ \A i \in 1..Len(password_reset_tokens) :
             password_reset_tokens[i].used_at # NULL =>
                /\ password_reset_tokens'[i].used_at # NULL
                /\ \A token \in ResetTokens :
                      token[1] = password_reset_tokens[i].token_selector
                         => confirm_lookup(token, now) = 0
       /\ \A p \in Procs :
             (/\ tx[p].pc = "idle"
              /\ tx'[p].op = "confirm"
              /\ \E i \in 1..Len(password_reset_tokens) :
                    /\ password_reset_tokens[i].used_at # NULL
                    /\ tx'[p].reset_token = TokenOfRow(i))
                => /\ tx'[p] = [Failed("confirm") EXCEPT !.reset_token = tx'[p].reset_token]
                   /\ ~tx'[p].result
                   /\ UNCHANGED dbVars]_vars

\* Both handlers were answered with failure for the token of a used row that
\* has not expired: one of them confirmed it before.
C3_Witness ==
    \E i \in 1..Len(password_reset_tokens) :
       /\ password_reset_tokens[i].used_at # NULL
       /\ password_reset_tokens[i].expires_at > now
       /\ \A p \in Procs :
             /\ tx[p].pc = "done" /\ tx[p].op = "confirm"
             /\ tx[p].reset_token = TokenOfRow(i)

\* C4: for every refresh secret whose matching row has revoked_at set,
\* refresh_access_token fails.
C4_RevokedNeverRefreshes ==
    \A s \in RefreshSecrets :
       (\E i \in 1..Len(refresh_tokens) :
           /\ verify_password(s, refresh_tokens[i].token_hash)
           /\ refresh_tokens[i].revoked_at # NULL)
          => ~refresh_succeeds(s)

\* C5: after a committed password reset of a user, refresh fails for every
\* refresh secret of that user from before the reset, the secret of a login
\* that overlapped the reset included.
C5_ResetRevokesSessions ==
    \A s \in preReset : ~refresh_succeeds(s)

\* C6: when logout(s) has returned success and committed, the row matching s
\* is revoked and refresh(s) fails from then on.
C6_LogoutEndsSecret ==
    [][\A p \in Procs :
          (tx[p].pc = "logout_commit" /\ tx'[p].pc = "idle")
             => /\ refresh_tokens'[tx[p].rid].revoked_at # NULL
                /\ \A s \in {tx[p].token} : ~refresh_succeeds(s)']_vars

\* The password stored for the user of this e-mail is this password and the
\* user is active.
CorrectCredentials(email, password) ==
    /\ email \in Users
    /\ users[email].is_active
    /\ users[email].hashed_password[2] = password

C8_LoginFailureGeneric ==
    [][\A p \in Procs :
          /\ (/\ tx[p].pc = "idle" /\ tx'[p].op = "login"
              /\ ~CorrectCredentials(tx'[p].email, tx'[p].password))
                => /\ tx'[p] = [Failed("login") EXCEPT !.email = tx'[p].email,
                                                       !.password = tx'[p].password,
                                                       !.work = tx'[p].work]
                   /\ tx'[p].token = NoToken /\ tx'[p].access_token = NoToken
                   /\ UNCHANGED dbVars
          /\ (tx[p].pc = "done" /\ tx[p].op = "login" /\ tx'[p] # tx[p])
                => UNCHANGED dbVars]_vars

\* The three causes stand answered at once or in turn: here an inactive
\* user presenting the stored password next to a wrong password or an
\* unknown e-mail.
C8_Witness ==
    \E p, q \in Procs :
       /\ tx[p].pc = "done" /\ tx[p].op = "login"
       /\ tx[p].email \in Users
       /\ ~users[tx[p].email].is_active
       /\ users[tx[p].email].hashed_password[2] = tx[p].password
       /\ tx[q].pc = "done" /\ tx[q].op = "login"
       /\ \/ tx[q].email = UnknownEmail
          \/ /\ tx[q].email \in Users
             /\ users[tx[q].email].is_active
             /\ users[tx[q].email].hashed_password[2] # tx[q].password
       /\ tx[p] = [Failed("login") EXCEPT !.email = tx[p].email, !.password = tx[p].password,
                                          !.work = tx[p].work]
       /\ tx[q] = [Failed("login") EXCEPT !.email = tx[q].email, !.password = tx[q].password,
                                          !.work = tx[q].work]

\* A committed row of the secret's subject matches it, is not revoked and
\* has not expired.
LiveRow(s) ==
    \E i \in 1..Len(refresh_tokens) :
       /\ refresh_tokens[i].user_id = s.sub
       /\ refresh_tokens[i].token_hash[2] = s
       /\ refresh_tokens[i].revoked_at = NULL
       /\ refresh_tokens[i].expires_at > now

\* No step of refresh_access_token creates, revokes or modifies a row, and a
\* success returns only an access token for the secret's subject.
RefreshFrame ==
    \A p \in Procs :
       /\ ((tx[p].op = "refresh" \/ tx'[p].op = "refresh") /\ tx'[p] # tx[p])
             => UNCHANGED dbVars
       /\ (tx'[p].op = "refresh" /\ tx'[p].pc = "done" /\ tx'[p].result /\ tx'[p] # tx[p])
             => /\ decode_token(tx'[p].access_token, now').type = "access"
                /\ decode_token(tx'[p].access_token, now').sub = tx'[p].token.sub
                /\ tx'[p].rt_ins = NoRefreshRow

\* C9 as stated: refresh does not rotate, touches no RefreshToken row,
\* returns only a new access token, and the same secret keeps succeeding
\* until it is revoked or expires.
C9_Original ==
    [][/\ RefreshFrame
       /\ \A s \in RefreshSecrets : LiveRow(s) => refresh_succeeds(s)]_vars

\* C9 amended: refresh does not rotate, touches no RefreshToken row, returns
\* only a new access token, and the same secret keeps succeeding until it is
\* revoked or expires, as long as its user stays active.
C9_RefreshKeepsSecret ==
    [][/\ RefreshFrame
       /\ \A s \in RefreshSecrets :
             (LiveRow(s) /\ users[s.sub].is_active) => refresh_succeeds(s)]_vars

\* Both handlers have refreshed with one secret and both succeeded; its row
\* is still live.
C9_Witness ==
    /\ \A p \in Procs : tx[p].op = "refresh" /\ tx[p].pc = "done" /\ tx[p].result
    /\ \E p, q \in Procs : p # q /\ tx[p].token = tx[q].token /\ LiveRow(tx[p].token)

\* C10: logout sets revoked_at on at most one row, a row of the token's
\* subject that it read as not revoked and whose hash verifies the secret,
\* and leaves every other row as it was; when nothing matches it returns
\* False without raising and changes nothing.
C10_LogoutFrame ==
    [][/\ \A p \in Procs :
             /\ (tx[p].pc = "idle" /\ tx'[p].op = "logout" /\ tx'[p].pc # "done")
                   => /\ tx'[p].pc = "logout_flush"
                      /\ tx'[p].rid \in 1..Len(refresh_tokens)
                      /\ refresh_tokens[tx'[p].rid].user_id = tx'[p].token.sub
                      /\ refresh_tokens[tx'[p].rid].revoked_at = NULL
                      /\ refresh_tokens[tx'[p].rid].token_hash[2] = tx'[p].token
                      /\ tx'[p].token.type = "refresh" /\ tx'[p].token.sig = SecretKey
                      /\ UNCHANGED dbVars
             /\ (tx[p].pc = "logout_flush" /\ tx'[p] # tx[p]) => UNCHANGED dbVars
             /\ (tx[p].pc = "logout_commit" /\ tx'[p] # tx[p])
                   => /\ Len(refresh_tokens') = Len(refresh_tokens)
                      /\ \A i \in 1..Len(refresh_tokens) :
                            refresh_tokens'[i] =
                               IF i = tx[p].rid
                               THEN [refresh_tokens[i] EXCEPT !.revoked_at = tx[p].t]
                               ELSE refresh_tokens[i]
                      /\ tx[p].t # NULL
                      /\ UNCHANGED <<users, password_reset_tokens>>
             /\ (tx'[p].op = "logout" /\ tx'[p].pc = "done" /\ tx'[p] # tx[p])
                   => /\ tx'[p] = Failed("logout")
                      /\ ~tx'[p].result /\ ~tx'[p].raised
                      /\ UNCHANGED dbVars
       /\ \A token \in Tokens(now) :
             (\A i \in 1..Len(refresh_tokens) :
                 \/ refresh_tokens[i].user_id # token.sub
                 \/ refresh_tokens[i].revoked_at # NULL
                 \/ refresh_tokens[i].token_hash[2] # token)
                => logout_candidates(token, now) = {}]_vars

\* A logout has committed: one row of the user is revoked, another row of
\* the same user is still as its login left it, and a logout that matched
\* nothing stands answered with False.
C10_Witness ==
    /\ \E i, j \in 1..Len(refresh_tokens) :
          /\ refresh_tokens[i].user_id = refresh_tokens[j].user_id
          /\ refresh_tokens[i].revoked_at # NULL
          /\ refresh_tokens[j].revoked_at = NULL
    /\ \E p \in Procs : tx[p] = Failed("logout")

\* C11: a token is accepted only where its type belongs: get_current_user
\* answers 401 to every token whose type is not access, and an authenticated
\* request carried an access token of the user; refresh_access_token and
\* logout match no row for a token whose type is not refresh, and a refresh
\* or logout that went past the scan carried a refresh token.
C11_TokenTypePerCallSite ==
    /\ \A cookies \in Cookies(now) \ {<<>>} :
          cookies[1].type # "access"
             => current_user(cookies, now) = Unauthorized("Invalid token")
    /\ \A token \in Tokens(now) :
          token.type # "refresh"
             => /\ refresh_candidates(token, now) = {}
                /\ logout_candidates(token, now) = {}
                /\ ~refresh_succeeds(token)
    /\ \A p \in Procs :
          /\ (tx[p].op = "current_user" /\ tx[p].result)
                => /\ tx[p].token.type = "access"
                   /\ tx[p].token.sub = tx[p].user
          /\ (tx[p].op = "current_user" /\ tx[p].token = NoToken)
                => ~tx[p].result /\ tx[p].user = NoUser
          /\ (tx[p].op \in {"refresh", "logout"} /\ tx[p].token # NoToken)
                => tx[p].token.type = "refresh"

\* A handler refreshed with a refresh token it holds; the same token sent
\* as the access cookie is answered 401 "Invalid token", and the other
\* handler has just been answered that way, while the access token that
\* was minted authenticates and neither refreshes nor logs out.
C11_Witness ==
    \E p, q \in Procs :
       /\ tx[p].op = "refresh" /\ tx[p].pc = "done" /\ tx[p].result
       /\ current_user(<<tx[p].token>>, now) = Unauthorized("Invalid token")
       /\ current_user(<<tx[p].access_token>>, now).user = tx[p].user
       /\ refresh_candidates(tx[p].access_token, now) = {}
       /\ logout_candidates(tx[p].access_token, now) = {}
       /\ tx[q].op = "current_user" /\ tx[q].detail = "Invalid token"

\* C18: get_current_user answers every unusable credential with HTTP 401
\* (missing cookie, undecodable token, wrong type, missing sub, a sub that is
\* no UUID, unknown user, inactive user) and no other exception leaves it.
C18_CurrentUserOnly401 ==
    \A p \in Procs :
       (tx[p].op = "current_user" /\ ~tx[p].result)
          => tx[p].exc = "HTTPException" /\ tx[p].status = 401

\* C17: a RefreshToken row is written once after its creation at most:
\* user_id, token_hash and expires_at never change, and a revoked_at that is
\* set is never cleared or overwritten by a later or concurrent logout or
\* password reset.
C17_RevokedAtWrittenOnce ==
    [][\A i \in 1..Len(refresh_tokens) :
          /\ refresh_tokens'[i].user_id = refresh_tokens[i].user_id
          /\ refresh_tokens'[i].token_hash = refresh_tokens[i].token_hash
          /\ refresh_tokens'[i].expires_at = refresh_tokens[i].expires_at
          /\ refresh_tokens[i].revoked_at # NULL
                => refresh_tokens'[i].revoked_at = refresh_tokens[i].revoked_at]_vars

\* C19: a login for an unknown e-mail performs a dummy verification
\* against a decoy digest before the generic failure, and so the same
\* password-hashing work as a login with a wrong password for a known,
\* active user.
C19_UnknownEmailSameWork ==
    \A p \in Procs :
       (tx[p].op = "login" /\ tx[p].pc = "done" /\ tx[p].email \notin Users)
          => /\ ~tx[p].result
             /\ "verify_password" \in {tx[p].work[i] : i \in 1..Len(tx[p].work)}
             /\ \A email \in Users, password \in Passwords :
                   (users[email].is_active /\ users[email].hashed_password[2] # password)
                      => tx[p].work = authenticate_work(email, password)

\* C15: creations of issues in different projects are independent: the
\* lock a creation waits for is free whenever no other creation holds the
\* row of the same project, whatever is locked in other projects, and the
\* number it reads and commits is one more than the count of its own
\* project's issues.
C15_ProjectsIndependent ==
    [][/\ \A p \in IssueProcs, project_id \in Projects :
             (\A q \in IssueProcs \ {p} :
                 itx[q].pc = "idle" \/ itx[q].project # project_id)
                => project_row_free(p, project_id)
       /\ \A p \in IssueProcs :
             /\ (itx[p].pc = "max" /\ itx'[p].pc = "insert")
                   => itx'[p].max_number = Cardinality(IssuesOf(itx[p].project))
             /\ (itx[p].pc = "commit" /\ itx'[p].pc = "idle")
                   => /\ Len(issues') = Len(issues) + 1
                      /\ issues'[Len(issues')].project_id = itx[p].project
                      /\ issues'[Len(issues')].issue_number =
                            Cardinality(IssuesOf(itx[p].project)) + 1
                      /\ \A project_id \in Projects \ {itx[p].project} :
                            IssuesOf(project_id)' = IssuesOf(project_id)]_vars

\* Two creations hold the rows of two different projects at once, both
\* about to commit, one of them in a project that already has an issue.
C15_Witness ==
    \E p, q \in IssueProcs :
       /\ itx[p].pc = "commit" /\ itx[q].pc = "commit"
       /\ itx[p].project # itx[q].project
       /\ IssuesOf(itx[p].project) # {}
       /\ itx[q].max_number = 0

\* C14: a creation that runs into the (project_id, issue_number) unique
\* constraint is retried once as a fresh transaction: its caller is not
\* answered with that first conflict.
C14_ConflictRetried ==
    [][\A p \in IssueProcs :
          (/\ itx[p].pc = "insert"
           /\ itx'[p] # itx[p]
           /\ itx[p].max_number + 1 \in IssueNumbers(itx[p].project))
             => /\ ~itx'[p].raised
                /\ itx'[p].pc = "max"
                /\ itx'[p].project = itx[p].project]_vars

\* C16: every creation in project P takes 1 + the largest issue_number of
\* any row of P, soft-deleted rows included (0 when P has none), and the key
\* "<P.key>-<number>"; numbers come out as 1, 2, 3, ... and none is used
\* again after a soft delete or a restore, which change neither number nor
\* key.
C16_NextNumberCountsDeleted ==
    [][/\ \A p \in IssueProcs :
             /\ (itx[p].pc = "max" /\ itx'[p].pc = "insert")
                   => itx'[p].max_number =
                         IF IssuesOf(itx[p].project) = {} THEN 0
                         ELSE SetMax({issues[i].issue_number : i \in IssuesOf(itx[p].project)})
             /\ (itx[p].pc = "commit" /\ itx'[p].pc = "idle")
                   => LET row == issues'[Len(issues')] IN
                      /\ Len(issues') = Len(issues) + 1
                      /\ row.project_id = itx[p].project
                      /\ row.issue_number = Cardinality(IssuesOf(itx[p].project)) + 1
                      /\ \A i \in IssuesOf(itx[p].project) :
                            issues[i].issue_number < row.issue_number
                      /\ row.key = <<row.project_id, "-", row.issue_number>>
                      /\ ~row.deleted
             /\ ~itx'[p].raised
       /\ \A i \in 1..Len(issues) :
             /\ issues'[i].issue_number = issues[i].issue_number
             /\ issues'[i].key = issues[i].key
             /\ issues'[i].project_id = issues[i].project_id]_vars

\* The first issue of a project is soft-deleted, the second is live, and
\* a third creation has read the largest number and is about to commit.
C16_Witness ==
    \E project_id \in Projects, p \in IssueProcs :
       /\ \E i, j \in IssuesOf(project_id) :
             /\ issues[i].issue_number = 1 /\ issues[i].deleted
             /\ issues[j].issue_number = 2 /\ ~issues[j].deleted
       /\ itx[p].pc = "commit" /\ itx[p].project = project_id /\ itx[p].max_number = 2

\* C12: decoding an encoded claim set returns the original sub and type
\* while the current time is before the token's exp, and returns invalid
\* once the current time is past exp, whatever the signature.
C12_RoundTripUntilExpiry ==
    codec.decoded =>
       /\ (codec.key = SecretKey /\ codec.at < codec.claims.exp)
             => /\ codec.payload.sub = codec.claims.sub
                /\ codec.payload.type = codec.claims.type
       /\ codec.at > codec.claims.exp => codec.payload = NoPayload

C20_SystemRoleNameFixed ==
    [][\A role_id \in RoleIds :
          roles[role_id].is_system => roles'[role_id].name = roles[role_id].name]_vars

\* C21: save_instance_settings keeps InstanceConfig a singleton: whatever
\* calls have run, in turn or at once, the table holds one row at most, and
\* a call commits a new row only into an empty table.
C21_InstanceConfigSingleton ==
    /\ Len(instance_config) <= 1
    /\ \A p \in SetupProcs : stx[p].pc = "commit_insert" => instance_config = <<>>

\* Every row of instance_config says setup is completed.
setup_is_complete ==
    /\ instance_config # <<>>
    /\ \A i \in 1..Len(instance_config) : instance_config[i].setup_completed

\* C22: while no row says setup is completed, a request outside the bypass
\* prefixes is answered with 307 to /setup, and a bypassed one is not; once
\* setup is completed, by the wizard's pages or by the API's complete
\* endpoint, a request is no longer redirected.
C22_RedirectUntilComplete ==
    [][\A path \in Paths :
          dispatch(path) =>
             /\ (\A i \in 1..Len(instance_config) : ~instance_config[i].setup_completed)
                   => IF \E prefix \in BYPASS_PREFIXES : startswith(path, prefix)
                      THEN answer'.status # 307
                      ELSE answer'.status = 307 /\ answer'.location = "/setup"
             /\ setup_is_complete => answer'.status # 307]_vars

\* C23: once setup is completed no setup request changes state: no step
\* adds an admin user or writes instance_config, and the API endpoints for
\* instance settings, admin creation, SMTP, skip-SMTP and completion answer
\* 403.
C23_SetupFrozenOnceComplete ==
    [][setup_is_complete =>
          /\ instance_config' = instance_config
          /\ admin_users' = admin_users
          /\ (answer' # answer /\ answer'.via = "api") => answer'.status = 403]_vars

\* C24: a confirm_password_reset that fails (no separator, unknown
\* selector, wrong validator, expired or used token) returns False and
\* changes nothing: password hashes, used_at and the RefreshToken rows stay
\* as they were, and every row that was unused and unexpired is still found
\* by its own token afterwards, a row whose selector the failed call named
\* with a wrong validator included.
C24_FailedConfirmChangesNothing ==
    [][\A p \in Procs :
          /\ (tx[p].pc = "idle" /\ tx'[p].op = "confirm" /\ tx'[p].pc = "done")
                => /\ ~tx'[p].result /\ ~tx'[p].raised
                   /\ UNCHANGED dbVars
                   /\ \A i \in 1..Len(password_reset_tokens) :
                         (/\ password_reset_tokens[i].used_at = NULL
                          /\ password_reset_tokens[i].expires_at > now)
                            => /\ i \in 1..Len(password_reset_tokens')
                               /\ password_reset_tokens'[i].used_at = NULL
                               /\ \A token \in {TokenOfRow(i)} :
                                     confirm_lookup(token, now)' = i
          /\ (tx[p].pc = "done" /\ tx[p].op = "confirm" /\ tx'[p] # tx[p])
                => UNCHANGED dbVars]_vars

\* One handler stands answered with failure for the selector of a row with
\* a wrong validator, and the other has since found that row with the right
\* validator and is about to commit its consumption.
C24_Witness ==
    \E p, q \in Procs, i \in 1..Len(password_reset_tokens) :
       /\ tx[p] = [Failed("confirm") EXCEPT !.reset_token = tx[p].reset_token]
       /\ Len(tx[p].reset_token) = 3
       /\ tx[p].reset_token[1] = password_reset_tokens[i].token_selector
       /\ tx[p].reset_token[3] # password_reset_tokens[i].token_hash[2]
       /\ tx[q].pc = "confirm_commit" /\ tx[q].rid = i
       /\ tx[q].reset_token = TokenOfRow(i)
       /\ password_reset_tokens[i].used_at = NULL

\* C25: expiry is terminal and a matter of time alone: no step changes the
\* expires_at of a row or removes a row, the clock never goes back, a
\* RefreshToken row whose expires_at the clock has reached is matched by no
\* token in refresh_access_token, a PasswordResetToken row whose expires_at
\* the clock has reached is found by no token in confirm_password_reset, and
\* a refresh or a confirmation that went past its lookup found a row that
\* had not expired.
C25_ExpiryTerminal ==
    [][/\ now' >= now
       /\ Len(refresh_tokens') >= Len(refresh_tokens)
       /\ Len(password_reset_tokens') >= Len(password_reset_tokens)
       /\ \A i \in 1..Len(refresh_tokens) :
             /\ refresh_tokens'[i].expires_at = refresh_tokens[i].expires_at
             /\ refresh_tokens[i].expires_at <= now
                   => \A token \in Tokens(now) : i \notin refresh_candidates(token, now)
       /\ \A i \in 1..Len(password_reset_tokens) :
             /\ password_reset_tokens'[i].expires_at = password_reset_tokens[i].expires_at
             /\ password_reset_tokens[i].expires_at <= now
                   => \A token \in ResetTokens : confirm_lookup(token, now) # i
       /\ \A p \in Procs :
             /\ (tx[p].pc = "idle" /\ tx'[p].pc = "refresh_user")
                   => \E i \in 1..Len(refresh_tokens) :
                         /\ verify_password(tx'[p].token, refresh_tokens[i].token_hash)
                         /\ refresh_tokens[i].expires_at > now
             /\ (tx[p].pc = "idle" /\ tx'[p].pc = "confirm_flush")
                   => password_reset_tokens[tx'[p].rid].expires_at > now]_vars

\* The clock has reached the expiry of a session row that was never revoked
\* and of a reset row that was never used, and a refresh with a token of
\* that session's user has just been refused.
C25_Witness ==
    /\ \E i \in 1..Len(refresh_tokens) :
          /\ refresh_tokens[i].expires_at <= now
          /\ refresh_tokens[i].revoked_at = NULL
          /\ \E p \in Procs :
                /\ tx[p] = Failed("refresh")
                /\ users[refresh_tokens[i].user_id].is_active
    /\ \E i \in 1..Len(password_reset_tokens) :
          /\ password_reset_tokens[i].expires_at <= now
          /\ password_reset_tokens[i].used_at = NULL

\* C26: while a user's is_active is false, login, refresh_access_token
\* and get_current_user fail for that user: authenticate returns no user
\* for any password, the stored one included, no refresh token of the user
\* refreshes and no cookie of the user authenticates, unexpired and
\* unrevoked ones included; a login, the user check of a refresh and a
\* get_current_user that run for the user in that time are answered with
\* failure.
C26_InactiveUserLockedOut ==
    /\ [](\A u \in Users :
             ~users[u].is_active =>
                /\ \A password \in Passwords : authenticate(u, password) = NoUser
                /\ \A token \in Tokens(now) : token.sub = u => ~refresh_succeeds(token)
                /\ \A cookies \in Cookies(now) \ {<<>>} :
                      cookies[1].sub = u
                         => /\ current_user(cookies, now).user = NoUser
                            /\ current_user(cookies, now).status = 401)
    /\ [][\A p \in Procs :
             /\ (/\ tx[p].pc = "idle" /\ tx'[p].op = "login"
                 /\ tx'[p].email \in Users /\ ~users[tx'[p].email].is_active)
                   => /\ tx'[p].pc = "done" /\ ~tx'[p].result
                      /\ tx'[p].token = NoToken /\ tx'[p].access_token = NoToken
             /\ (/\ tx[p].pc = "refresh_user" /\ tx'[p] # tx[p]
                 /\ tx[p].user \in Users /\ ~users[tx[p].user].is_active)
                   => tx'[p] = Failed("refresh")
             /\ (tx[p].pc = "idle" /\ tx'[p].op = "current_user" /\ tx'[p].result)
                   => users[tx'[p].user].is_active]_vars

\* A user with a session row that is neither revoked nor expired has been
\* deactivated: a login with the stored password stands answered with
\* failure, a request with the user's unexpired access token was answered
\* 401, and the session's refresh token no longer refreshes.
C26_Witness ==
    \E u \in Users, p, q \in Procs :
       /\ ~users[u].is_active
       /\ \E i \in 1..Len(refresh_tokens) :
             /\ refresh_tokens[i].user_id = u
             /\ refresh_tokens[i].revoked_at = NULL
             /\ refresh_tokens[i].expires_at > now
             /\ ~refresh_succeeds(refresh_tokens[i].token_hash[2])
       /\ tx[p].op = "login" /\ tx[p].pc = "done" /\ ~tx[p].result
       /\ tx[p].email = u /\ users[u].hashed_password[2] = tx[p].password
       /\ tx[q].op = "current_user" /\ tx[q].detail = "User not found or inactive"
       /\ decode_token(create_access_token(u, now), now).sub = u

\* The issue target is reached from issue i by following parent_id at most
\* n times.
RECURSIVE climbs(_, _, _)
climbs(i, target, n) ==
    /\ n > 0
    /\ parent_id[i] # NULL
    /\ (parent_id[i] = target \/ climbs(parent_id[i], target, n - 1))

\* C27: the parent relation of the issues has no cycle: no issue is its own
\* parent or its own ancestor.
C27_ParentsAcyclic ==
    \A i \in 1..Len(issues) : ~climbs(i, i, MaxIssues)

\* C28: every refresh secret login returns verifies against exactly one
\* RefreshToken row: no secret is verified by two rows, and the secret a
\* login is about to return is verified by no row that is already there.
C28_RefreshSecretsDistinct ==
    /\ \A s \in RefreshSecrets :
          Cardinality({i \in 1..Len(refresh_tokens) :
                         verify_password(s, refresh_tokens[i].token_hash)}) <= 1
    /\ \A p \in Procs :
          tx[p].pc = "login_commit"
             => \A i \in 1..Len(refresh_tokens) :
                   ~verify_password(tx[p].token, refresh_tokens[i].token_hash)

\* C29: request_password_reset and confirm_password_reset write no
\* PasswordResetToken row but their own: a step changes an existing row only
\* by the commit of the confirmation that found it, which sets its used_at,
\* and a request only appends its row; a user can hold several outstanding
\* rows, and every row that is unused and unexpired is found by its own
\* token, whatever happened to the user's other rows and password.
C29_OtherResetTokensUntouched ==
    [][/\ Len(password_reset_tokens') >= Len(password_reset_tokens)
       /\ \A i \in 1..Len(password_reset_tokens) :
             \/ password_reset_tokens'[i] = password_reset_tokens[i]
             \/ \E p \in Procs :
                   /\ tx[p].pc = "confirm_commit" /\ tx'[p].pc = "idle"
                   /\ tx[p].rid = i
                   /\ password_reset_tokens'[i] =
                         [password_reset_tokens[i] EXCEPT !.used_at = tx[p].t]
       /\ \A i \in 1..Len(password_reset_tokens) :
             (/\ password_reset_tokens[i].used_at = NULL
              /\ password_reset_tokens[i].expires_at > now)
                => confirm_lookup(TokenOfRow(i), now) = i]_vars

\* A user holds two reset rows: one has been consumed and the password
\* changed by it, the other is still unused and a confirmation has found it
\* with its own token and is about to commit.
C29_Witness ==
    \E i, j \in 1..Len(password_reset_tokens), p \in Procs :
       /\ i # j
       /\ password_reset_tokens[i].user_id = password_reset_tokens[j].user_id
       /\ password_reset_tokens[i].used_at # NULL
       /\ password_reset_tokens[j].used_at = NULL
       /\ users[password_reset_tokens[i].user_id].hashed_password # hash_password("pw1")
       /\ tx[p].pc = "confirm_commit" /\ tx[p].rid = j
       /\ tx[p].reset_token = TokenOfRow(j)

\* C30: revoked_at is written by logout and by confirm_password_reset
\* alone: a step changes the revoked_at of a row only as the commit of the
\* logout that matched the row or of the confirmation that read it, and a
\* step that changes a password hash or an is_active flag otherwise (the
\* profile's change_password, the administrator's reset_password, the
\* provider's change_password, deactivate_user) leaves every RefreshToken
\* row as it was.
C30_OnlyLogoutAndResetRevoke ==
    [][/\ \A i \in 1..Len(refresh_tokens) :
             refresh_tokens'[i].revoked_at # refresh_tokens[i].revoked_at
                => \E p \in Procs :
                      /\ tx'[p].pc = "idle"
                      /\ \/ tx[p].pc = "logout_commit" /\ tx[p].rid = i
                         \/ tx[p].pc = "confirm_commit" /\ i \in tx[p].rids
       /\ \A u \in Users :
             (/\ \/ users'[u].hashed_password # users[u].hashed_password
                 \/ users'[u].is_active # users[u].is_active
              /\ \A p \in Procs : tx[p].pc # "confirm_commit")
                => refresh_tokens' = refresh_tokens]_vars

\* A user's password has been changed without any reset token being used
\* and the user has been deactivated, and the user's session row is still
\* not revoked although it has not expired.
C30_Witness ==
    \E u \in Users, i \in 1..Len(refresh_tokens) :
       /\ refresh_tokens[i].user_id = u
       /\ refresh_tokens[i].revoked_at = NULL
       /\ refresh_tokens[i].expires_at > now
       /\ users[u].hashed_password # hash_password("pw1")
       /\ ~users[u].is_active
       /\ \A j \in 1..Len(password_reset_tokens) : password_reset_tokens[j].used_at = NULL

=============================================================================
